---- MODULE Spec2Model ----
(***************************************************************************)
(* A model of the IEEE-CIS fraud-detection pipeline: the feature           *)
(* engineering stages of Data_FE_Transformation, the inference path of     *)
(* PredictionPipeline, the handlers and the drift detector of the API,     *)
(* and model training with its versioned store.                            *)
(*                                                                         *)
(* A data frame is a record [rows, cols]: rows is the sequence of rows in  *)
(* positional order, each row carrying its pandas index label idx          *)
(* (0-based, as pandas numbers a RangeIndex); cols is the sequence of      *)
(* column names in column order.  Fractions (medians, label means) are     *)
(* reduced pairs <<numerator, denominator>>; NaN is <<0, 0>>.              *)
(***************************************************************************)
EXTENDS Integers, Sequences, FiniteSets, TLC

VARIABLES
    mode,       \* "train": Data_FE_Transformation.RUN, "infer": apply_feature_engineering
    pc,         \* position of the run
    df,         \* the data frame being engineered
    stages,     \* the feature-engineering stage operations invoked so far, in order
    caller,     \* who started the run: "RUN", "api", "predict" or "predict_proba"
    prediction_pipeline,    \* the API's global pipeline: "None" or "PredictionPipeline"
    model,      \* the pipeline's self.model: "None" or "loaded"
    request,    \* the batch handed in: [keys, rows]
    transaction_ids,        \* the TransactionID column stored before validation
    steps,      \* the steps of predict / predict_proba started so far, in order
    predictions,            \* the array model.predict returned
    result,     \* result_df: a sequence of [TransactionID, prediction_isFraud]
    error,      \* the exception predict / predict_proba ended with, "None" if none
    response,   \* the HTTP response of POST /predict: [status, row, predictions, ...]
    schema_yaml,            \* config/schema.yaml: "absent", or the entries by name
    schema_check,           \* the schema operation done last and what it reported
    artifacts,  \* the data files RUN has written
    preprocessor_joblib,    \* models/preprocessor.joblib: "absent" or the fitted one
    model_joblib,           \* whether the local copy of the model exists
    loads,      \* how often the process has loaded the model, the preprocessor, and
                \* fetched the model from S3
    calls,      \* the number of the prediction request at hand
    transformed,            \* Train_transformed and Test_transformed of RUN: their columns
    prediction_window,      \* drift_detector.prediction_window: the deque of fraud
                \* probabilities, oldest first, in percent
    arrivals,   \* every probability handed to the drift detector so far, in order
    drift_results,          \* what check_drift returned in the request at hand
    health,     \* the HTTP response of GET /health
    s3_objects, \* the keys of the bucket under models/ and what each holds
    trainer,    \* the training run at hand: its model, its version, its outcome
    fetched     \* what fetch_model_from_s3 of an inference process downloaded

feVars == <<mode, df, stages>>

reqVars == <<caller, prediction_pipeline, model, request, transaction_ids, steps,
             predictions, result, error, response>>

envVars == <<schema_yaml, schema_check, artifacts, preprocessor_joblib, model_joblib,
             loads, calls, transformed>>

driftVars == <<prediction_window, arrivals, drift_results>>

storeVars == <<s3_objects, trainer, fetched>>

opsVars == <<driftVars, health, storeVars>>

vars == <<pc, feVars, reqVars, envVars, opsVars>>

-----------------------------------------------------------------------------
(* Bounds of the model. *)

\* rows of a batch in the amount scenarios
NAmountRows == 3

\* rows beyond n_splits in the email scenarios (KFold refuses fewer than n_splits)
ExtraEmailRows == 0

\* largest batch handed to predict, predict_proba or POST /predict
MaxBatch == 2

\* the prediction requests one process serves
MaxCalls == 2

-----------------------------------------------------------------------------
(* Arithmetic helpers. *)

NaN == <<0, 0>>

RECURSIVE GCD(_, _)
GCD(a, b) == IF b = 0 THEN a ELSE GCD(b, a % b)

\* the fraction n/d (n >= 0, d > 0) in lowest terms
Rat(n, d) == LET g == GCD(n, d) IN <<n \div g, d \div g>>

RECURSIVE SumOver(_, _)
SumOver(S, f) ==
    IF S = {} THEN 0
    ELSE LET x == CHOOSE y \in S : TRUE IN f[x] + SumOver(S \ {x}, f)

\* lexicographic order of two tuples of numbers of the same length
RECURSIVE KeyLess(_, _)
KeyLess(a, b) ==
    /\ a # <<>>
    /\ \/ Head(a) < Head(b)
       \/ Head(a) = Head(b) /\ KeyLess(Tail(a), Tail(b))

\* stable sort of the sequence s by the sort keys keys[i] of its elements
SortBy(s, keys) ==
    LET n == Len(s)
        rank(i) == Cardinality({j \in 1..n :
                        KeyLess(keys[j], keys[i])
                        \/ (~KeyLess(keys[i], keys[j]) /\ j < i)})
    IN  [p \in 1..n |-> s[CHOOSE i \in 1..n : rank(i) = p - 1]] \o <<>>

\* the elements of a set of numbers in ascending order
Ascending(S) ==
    [k \in 1..Cardinality(S) |-> CHOOSE q \in S : Cardinality({r \in S : r < q}) = k - 1]
        \o <<>>

ColSet(cols) == {cols[i] : i \in 1..Len(cols)}

\* cols with the names of new appended, a name already present keeping its place
AddCols(cols, new) ==
    LET have == ColSet(cols) IN cols \o SelectSeq(new, LAMBDA c : c \notin have)

HasCol(d, c) == c \in ColSet(d.cols)

HasAll(d, cs) == cs \subseteq ColSet(d.cols)

-----------------------------------------------------------------------------
(* Stage 1: create_transaction_amount_features. *)

\* rolling(5, min_periods=1)
RollWindow == 5

card_cols == {"card1", "card2", "card3", "card4", "card5", "card6"}

\* the sort keys of sort_values(['card_id', 'TransactionDT'])
CardDtKeys(rows) ==
    [p \in 1..Len(rows) |-> <<rows[p].card_id, rows[p].TransactionDT>>] \o <<>>

\* the keys by which groupby('card_id') lays the groups out
CardKeys(rows) == [p \in 1..Len(rows) |-> <<rows[p].card_id>>] \o <<>>

\* median of the TransactionAmt of the rows at the positions P (P not empty)
MedianAmt(rows, P) ==
    LET window == [k \in 1..Cardinality(P) |-> rows[Ascending(P)[k]].TransactionAmt] \o <<>>
        amts == SortBy(window, [k \in 1..Len(window) |-> <<window[k]>>] \o <<>>)
        n == Len(amts)
    IN  IF n % 2 = 1 THEN <<amts[(n + 1) \div 2], 1>>
        ELSE Rat(amts[n \div 2] + amts[n \div 2 + 1], 2)

\* the window of groupby('card_id').rolling(5, min_periods=1) ending at position p:
\* the last RollWindow rows of p's group up to and including p
GroupWindow(rows, p) ==
    LET same == {q \in 1..p : rows[q].card_id = rows[p].card_id}
    IN  {q \in same : Cardinality({r \in same : r > q}) < RollWindow}

\* groupby('card_id')['TransactionAmt'].shift(1): the previous row of the same group
PrevInGroup(rows, p) ==
    LET before == {q \in 1..(p - 1) : rows[q].card_id = rows[p].card_id}
    IN  IF before = {} THEN 0 ELSE CHOOSE q \in before : \A r \in before : r <= q

\* .rolling(5, min_periods=1).median().shift(1).reset_index(level=0, drop=True):
\* the rolling medians are laid out group after group, shifted by one place over the
\* whole series, and handed back to each row under its index label
ShiftedRollingMedian(rows) ==
    LET n == Len(rows)
        rolled == [p \in 1..n |-> [idx |-> rows[p].idx,
                                   card_id |-> rows[p].card_id,
                                   med |-> MedianAmt(rows, GroupWindow(rows, p))]] \o <<>>
        grouped == SortBy(rolled, CardKeys(rolled))
        shifted == [k \in 1..n |-> IF k = 1 THEN NaN ELSE grouped[k - 1].med] \o <<>>
    IN  [p \in 1..n |-> shifted[CHOOSE k \in 1..n : grouped[k].idx = rows[p].idx]] \o <<>>

AmountNewCols ==
    <<"TransactionAmt_log", "TransactionAmt_decimal", "TransactionAmt_is_round",
      "TransactionAmt_bins", "TransactionAmt_cents", "TransactionAmt_is_micro",
      "card_id", "prev_amount", "amount_jump_ratio", "is_amount_spike",
      "rolling_median_amt", "amt_vs_rolling", "amt_repeat_count">>

create_transaction_amount_features_raises(d) ==
    ~HasAll(d, {"TransactionAmt", "TransactionDT"} \cup card_cols)

create_transaction_amount_features(d) ==
    LET sorted == SortBy(d.rows, CardDtKeys(d.rows))
        n == Len(sorted)
        shifted == ShiftedRollingMedian(sorted)
        out(p) ==
            LET r == sorted[p]
                q == PrevInGroup(sorted, p)
            IN  [r EXCEPT
                    !.prev_amount = IF q = 0 THEN r.TransactionAmt
                                    ELSE sorted[q].TransactionAmt,
                    !.rolling_median_amt = IF shifted[p] = NaN
                                           THEN <<r.TransactionAmt, 1>>
                                           ELSE shifted[p]]
    IN  [rows |-> [p \in 1..n |-> out(p)] \o <<>>,
         cols |-> AddCols(AddCols(d.cols, AmountNewCols),
                          IF HasCol(d, "user_id") THEN <<"amount_zscore">> ELSE <<>>)]

-----------------------------------------------------------------------------
(* Stage 2: create_time_features. *)

TimeNewCols ==
    <<"Transaction_hour", "Transaction_sec_in_day", "Transaction_time_of_day",
      "Transaction_is_night", "Transaction_is_business_hour", "Transaction_time_gap",
      "Transaction_cnt_1hr", "Transaction_hour_sin", "Transaction_hour_cos">>

create_time_features_raises(d) == ~HasAll(d, {"TransactionDT", "card_id"})

\* groupby('card_id')['TransactionDT'].rolling(3600): a window of 3600 rows, with
\* min_periods the size of the window
CountWindow == 3600

\* .rolling(3600).count().reset_index(level=0, drop=True) for the row at position p:
\* the number of rows among the last CountWindow rows of p's group up to and
\* including p, NaN while the group has fewer than CountWindow rows there
RollingCount(rows, p) ==
    LET same == {q \in 1..p : rows[q].card_id = rows[p].card_id}
        window == {q \in same : Cardinality({r \in same : r > q}) < CountWindow}
    IN  IF Cardinality(window) < CountWindow THEN NaN ELSE <<Cardinality(window), 1>>

create_time_features(d) ==
    [rows |-> [p \in 1..Len(d.rows) |->
                 [d.rows[p] EXCEPT !.Transaction_cnt_1hr = RollingCount(d.rows, p)]]
              \o <<>>,
     cols |-> AddCols(d.cols, TimeNewCols)]

-----------------------------------------------------------------------------
(* Stage 3: create_card_features. *)

CardNewCols ==
    <<"card1_addrs1", "card1_addrs2", "card2_addrs1", "card1_ProductCD",
      "card2_ProductCD", "card_id_count", "card_add_count">>

create_card_features_raises(d) ==
    ~HasAll(d, {"card1", "card2", "addr1", "addr2", "ProductCD", "card_id",
                "TransactionID"})

create_card_features(d) == [d EXCEPT !.cols = AddCols(d.cols, CardNewCols)]

-----------------------------------------------------------------------------
(* Stage 4: create_email_features. *)

\* create_email_features(self, df, target_col='isFraud', n_splits=5)
n_splits == 5

target_col == "isFraud"

\* sklearn's KFold(shuffle=True, random_state=42) shuffles arange(n) with
\* numpy's RandomState(42); these are the shuffled arrays (0-based positions)
KFoldShuffled(n) ==
    CASE n = 5 -> <<1, 4, 2, 0, 3>>
      [] n = 6 -> <<0, 1, 5, 2, 4, 3>>
      [] n = 7 -> <<0, 1, 5, 2, 4, 3, 6>>
      [] n = 8 -> <<1, 5, 0, 7, 2, 4, 3, 6>>

Min(a, b) == IF a < b THEN a ELSE b

\* the validation positions of fold k (1..n_splits): the first n % n_splits folds
\* hold n // n_splits + 1 positions, the others n // n_splits
ValIdx(n, k) ==
    LET base == n \div n_splits
        start == (k - 1) * base + Min(k - 1, n % n_splits)
        size == base + (IF k <= n % n_splits THEN 1 ELSE 0)
    IN  {KFoldShuffled(n)[j] : j \in (start + 1)..(start + size)}

\* train_df.groupby('P_emaildomain')[target_col].mean(), looked up for one domain;
\* NaN when the domain is not among the training rows
DomainMean(rows, train, dom) ==
    LET T == {p \in train : rows[p + 1].P_emaildomain = dom}
    IN  IF T = {} THEN NaN
        ELSE Rat(SumOver(T, [p \in T |-> rows[p + 1].isFraud]), Cardinality(T))

\* one pass of the loop body:
\*   df.loc[val_idx, 'P_domain_fraud_rate'] = val_df['P_emaildomain'].map(mapping)
\* val_df holds the rows at the positions val_idx; df.loc selects the rows whose
\* index LABEL is in val_idx and takes the value the right-hand series has under
\* that label, NaN when the series has no such label
KFoldPass(rows, k) ==
    LET n == Len(rows)
        val == ValIdx(n, k)
        train == (0..(n - 1)) \ val
        valLabels == {rows[p + 1].idx : p \in val}
    IN  [p \in 1..n |->
            IF rows[p].idx \in val
            THEN [rows[p] EXCEPT !.P_domain_fraud_rate =
                     IF rows[p].idx \in valLabels
                     THEN DomainMean(rows, train, rows[p].P_emaildomain)
                     ELSE NaN]
            ELSE rows[p]] \o <<>>

RECURSIVE KFoldLoop(_, _)
KFoldLoop(rows, k) ==
    IF k > n_splits THEN rows ELSE KFoldLoop(KFoldPass(rows, k), k + 1)

\* global_mean = df[target_col].mean()
GlobalMean(rows) ==
    Rat(SumOver(1..Len(rows), [p \in 1..Len(rows) |-> rows[p].isFraud]), Len(rows))

\* the else branch: df['P_domain_fraud_rate'] = 0.0
FallbackRate == <<0, 1>>

EmailNewCols ==
    <<"P_emaildomain", "R_emaildomain", "P_email_vendor", "R_email_vendor",
      "P_email_tld", "R_email_tld", "email_domain_match", "email_presence",
      "P_domain_count", "R_domain_count", "P_domain_fraud_rate">>

\* whether the K-fold branch is taken: if target_col in df.columns
UsesKFold(d) == HasCol(d, target_col)

\* KFold.split raises ValueError when n_splits exceeds the number of rows
create_email_features_raises(d) == UsesKFold(d) /\ Len(d.rows) < n_splits

create_email_features(d) ==
    LET n == Len(d.rows)
        filled == [p \in 1..n |->
                     [d.rows[p] EXCEPT
                         !.P_emaildomain = IF HasCol(d, "P_emaildomain") THEN @ ELSE "missing",
                         !.P_domain_fraud_rate = NaN]] \o <<>>
        encoded == IF UsesKFold(d) THEN KFoldLoop(filled, 1) ELSE filled
        global_mean == IF UsesKFold(d) THEN GlobalMean(filled) ELSE NaN
    IN  [rows |-> [p \in 1..n |->
                     [filled[p] EXCEPT !.P_domain_fraud_rate =
                         IF UsesKFold(d)
                         THEN (IF encoded[p].P_domain_fraud_rate = NaN
                               THEN global_mean
                               ELSE encoded[p].P_domain_fraud_rate)
                         ELSE FallbackRate]] \o <<>>,
         cols |-> AddCols(d.cols, EmailNewCols)]

-----------------------------------------------------------------------------
(* Stages 5 to 9: device, address, V-block, aggregation and identity features. *)
(* These stages only add columns; what they add depends on the columns present. *)

\* the columns of each rule [need, add] are added when all of need are present
RECURSIVE CondAdd(_, _, _)
CondAdd(cols, d, rules) ==
    IF rules = <<>> THEN cols
    ELSE CondAdd(IF HasAll(d, Head(rules).need) THEN AddCols(cols, Head(rules).add)
                 ELSE cols,
                 d, Tail(rules))

Rule(need, add) == [need |-> need, add |-> add]

\* DeviceType and id_30 have an else branch that fills defaults;
\* DeviceInfo, id_31 and id_33 have none
DeviceRules ==
    <<Rule({}, <<"DeviceType_is_mobile", "DeviceType_is_desktop">>),
      Rule({"DeviceInfo"}, <<"Device_brand", "DeviceInfo_length">>),
      Rule({"id_31"}, <<"browser", "Broser_is_chrome", "Broser_is_firefox",
                        "Broser_is_edge", "Broser_is_safari">>),
      Rule({}, <<"os_name", "os_version", "OS_is_Windows", "OS_is_Mac",
                 "OS_is_iOS", "OS_is_Android">>),
      Rule({"id_33"}, <<"Screen_width", "Screen_height", "Screen_area",
                        "Screen_aspect_ratio">>)>>

create_device_features_raises(d) == FALSE

create_device_features(d) == [d EXCEPT !.cols = CondAdd(d.cols, d, DeviceRules)]

AddressRules ==
    <<Rule({"addr1", "addr2"}, <<"addr1_addr2">>),
      Rule({"addr1", "ProductCD"}, <<"addr1_ProductCD">>),
      Rule({"addr1"}, <<"addr1_missing">>),
      Rule({"addr2"}, <<"addr2_missing">>),
      Rule({"addr1", "addr2"}, <<"both_addr_missing">>),
      Rule({"dist1"}, <<"dist1_missing", "dist1_log">>),
      Rule({"dist2"}, <<"dist2_missing", "dist2_log">>)>>

create_address_features_raises(d) == FALSE

create_address_features(d) == [d EXCEPT !.cols = CondAdd(d.cols, d, AddressRules)]

\* the raw columns whose name starts with 'V' that the model carries: V1 belongs to
\* the group v1 of v_groups and V12 to the group v2
VColumns == {"V1", "V12"}

VRules ==
    <<Rule({"V1"}, <<"v1_sum", "v1_mean", "v1_std", "v1_nan_count">>),
      Rule({"V12"}, <<"v2_sum", "v2_mean", "v2_std", "v2_nan_count">>)>>

VAllCols == <<"V_sum_all", "V_mean_all", "V_std_all", "V_nan_count_all", "V_nan_ratio">>

create_v_features_raises(d) == FALSE

create_v_features(d) ==
    IF \A c \in VColumns : ~HasCol(d, c) THEN d
    ELSE [d EXCEPT !.cols = AddCols(CondAdd(d.cols, d, VRules), VAllCols)]

\* frequency_encoded_cols, then aggregation_cols
AggregationRules ==
    <<Rule({"card1"}, <<"card1_freq">>), Rule({"card2"}, <<"card2_freq">>),
      Rule({"card3"}, <<"card3_freq">>), Rule({"card4"}, <<"card4_freq">>),
      Rule({"card5"}, <<"card5_freq">>), Rule({"card6"}, <<"card6_freq">>),
      Rule({"addr1"}, <<"addr1_freq">>), Rule({"addr2"}, <<"addr2_freq">>),
      Rule({"P_emaildomain"}, <<"P_emaildomain_freq">>),
      Rule({"R_emaildomain"}, <<"R_emaildomain_freq">>),
      Rule({"ProductCD"}, <<"ProductCD_freq">>),
      Rule({"DeviceType"}, <<"DeviceType_freq">>),
      Rule({"DeviceInfo"}, <<"DeviceInfo_freq">>),
      Rule({"card1"}, <<"card1_TransactionAmt_mean", "card1_TransactionAmt_std",
                        "card1_TransactionAmt_dev">>),
      Rule({"card2"}, <<"card2_TransactionAmt_mean", "card2_TransactionAmt_std",
                        "card2_TransactionAmt_dev">>),
      Rule({"addr1"}, <<"addr1_TransactionAmt_mean", "addr1_TransactionAmt_std",
                        "addr1_TransactionAmt_dev">>)>>

\* the amount aggregations read TransactionAmt whenever an aggregation column exists
create_aggregation_features_raises(d) ==
    /\ \E c \in {"card1", "card2", "addr1"} : HasCol(d, c)
    /\ ~HasCol(d, "TransactionAmt")

create_aggregation_features(d) == [d EXCEPT !.cols = CondAdd(d.cols, d, AggregationRules)]

\* of id_01 .. id_11 the model carries id_01
IdRules ==
    <<Rule({"id_01"}, <<"id_num_nan_count", "id_num_mean", "id_num_std">>),
      Rule({"id_12"}, <<"id_12_isFound">>),
      Rule({"id_15"}, <<"id_15_isNew", "id_15_isFound">>),
      Rule({"id_16"}, <<"id_16_isFound">>),
      Rule({"id_28"}, <<"id_28_isNew", "id_28_isFound">>),
      Rule({"id_29"}, <<"id_29_isFound">>),
      Rule({"id_34"}, <<"id_34_match">>),
      Rule({"id_36"}, <<"id_36_isT">>),
      Rule({"id_37"}, <<"id_37_isT">>),
      Rule({"id_38"}, <<"id_38_isT">>)>>

create_id_features_raises(d) == FALSE

create_id_features(d) == [d EXCEPT !.cols = CondAdd(d.cols, d, IdRules)]

-----------------------------------------------------------------------------
(* Stages 10 to 12: UID fingerprints, UID aggregations, enhanced frequencies. *)

create_uid_features_raises(d) ==
    ~HasAll(d, card_cols \cup {"addr1", "D1", "P_emaildomain"})

create_uid_features(d) ==
    [d EXCEPT !.cols = AddCols(d.cols, <<"uid1", "uid2", "uid3", "uid4">>)]

uid_cols == {"uid1", "uid2", "uid3", "uid4"}

UidAggNewCols ==
    <<"uid1_count", "uid1_TransactionAmt_mean", "uid1_TransactionAmt_std",
      "uid1_TransactionAmt_to_mean", "uid1_TransactionAmt_to_std", "uid1_D1_mean",
      "uid2_count", "uid2_TransactionAmt_mean", "uid2_TransactionAmt_std",
      "uid2_TransactionAmt_to_mean", "uid2_TransactionAmt_to_std", "uid2_D1_mean",
      "uid3_count", "uid3_TransactionAmt_mean", "uid3_TransactionAmt_std",
      "uid3_TransactionAmt_to_mean", "uid3_TransactionAmt_to_std", "uid3_D1_mean",
      "uid4_count", "uid4_TransactionAmt_mean", "uid4_TransactionAmt_std",
      "uid4_TransactionAmt_to_mean", "uid4_TransactionAmt_to_std", "uid4_D1_mean">>

\* the sort keys of sort_values('TransactionDT')
DtKeys(rows) == [p \in 1..Len(rows) |-> <<rows[p].TransactionDT>>] \o <<>>

create_uid_aggregations_raises(d) ==
    ~HasAll(d, uid_cols \cup {"TransactionDT", "TransactionID", "TransactionAmt", "D1"})

\* df.sort_values('TransactionDT').reset_index(drop=True): the rows are put in time
\* order and renumbered, so a row's label is its new position from here on
create_uid_aggregations(d) ==
    LET sorted == SortBy(d.rows, DtKeys(d.rows))
    IN  [rows |-> [p \in 1..Len(sorted) |-> [sorted[p] EXCEPT !.idx = p - 1]] \o <<>>,
         cols |-> AddCols(d.cols, UidAggNewCols)]

EnhancedFreqRules ==
    <<Rule({"uid1"}, <<"uid1_freq", "uid1_freq_norm">>),
      Rule({"uid2"}, <<"uid2_freq", "uid2_freq_norm">>),
      Rule({"uid3"}, <<"uid3_freq", "uid3_freq_norm">>),
      Rule({"uid4"}, <<"uid4_freq", "uid4_freq_norm">>),
      Rule({"card1"}, <<"card1_freq", "card1_freq_norm">>),
      Rule({"card2"}, <<"card2_freq", "card2_freq_norm">>),
      Rule({"addr1"}, <<"addr1_freq", "addr1_freq_norm">>),
      Rule({"P_emaildomain"}, <<"P_emaildomain_freq", "P_emaildomain_freq_norm">>),
      Rule({"DeviceType"}, <<"DeviceType_freq", "DeviceType_freq_norm">>),
      Rule({"DeviceInfo"}, <<"DeviceInfo_freq", "DeviceInfo_freq_norm">>)>>

create_enhanced_frequency_features_raises(d) == FALSE

create_enhanced_frequency_features(d) ==
    [d EXCEPT !.cols = CondAdd(d.cols, d, EnhancedFreqRules)]

-----------------------------------------------------------------------------
(* The order of the stages. *)

\* Data_FE_Transformation.RUN, steps 2 to 13
RUN_stages ==
    <<"create_transaction_amount_features", "create_time_features",
      "create_card_features", "create_email_features", "create_device_features",
      "create_address_features", "create_v_features", "create_aggregation_features",
      "create_id_features", "create_uid_features", "create_uid_aggregations",
      "create_enhanced_frequency_features">>

\* apply_feature_engineering with the card and the email stage in each other's place
apply_feature_engineering_stages_swapped ==
    <<"create_transaction_amount_features", "create_time_features",
      "create_email_features", "create_card_features", "create_device_features",
      "create_address_features", "create_v_features", "create_aggregation_features",
      "create_id_features", "create_uid_features", "create_uid_aggregations",
      "create_enhanced_frequency_features">>

\* PredictionPipeline.apply_feature_engineering, steps 2 to 13
apply_feature_engineering_stages ==
    <<"create_transaction_amount_features", "create_time_features",
      "create_card_features", "create_email_features", "create_device_features",
      "create_address_features", "create_v_features", "create_aggregation_features",
      "create_id_features", "create_uid_features", "create_uid_aggregations",
      "create_enhanced_frequency_features">>

StagesOf(m) == IF m = "train" THEN RUN_stages ELSE apply_feature_engineering_stages

StageRaises(name, d) ==
    CASE name = "create_transaction_amount_features" -> create_transaction_amount_features_raises(d)
      [] name = "create_time_features" -> create_time_features_raises(d)
      [] name = "create_card_features" -> create_card_features_raises(d)
      [] name = "create_email_features" -> create_email_features_raises(d)
      [] name = "create_device_features" -> create_device_features_raises(d)
      [] name = "create_address_features" -> create_address_features_raises(d)
      [] name = "create_v_features" -> create_v_features_raises(d)
      [] name = "create_aggregation_features" -> create_aggregation_features_raises(d)
      [] name = "create_id_features" -> create_id_features_raises(d)
      [] name = "create_uid_features" -> create_uid_features_raises(d)
      [] name = "create_uid_aggregations" -> create_uid_aggregations_raises(d)
      [] name = "create_enhanced_frequency_features" -> create_enhanced_frequency_features_raises(d)

StageApply(name, d) ==
    CASE name = "create_transaction_amount_features" -> create_transaction_amount_features(d)
      [] name = "create_time_features" -> create_time_features(d)
      [] name = "create_card_features" -> create_card_features(d)
      [] name = "create_email_features" -> create_email_features(d)
      [] name = "create_device_features" -> create_device_features(d)
      [] name = "create_address_features" -> create_address_features(d)
      [] name = "create_v_features" -> create_v_features(d)
      [] name = "create_aggregation_features" -> create_aggregation_features(d)
      [] name = "create_id_features" -> create_id_features(d)
      [] name = "create_uid_features" -> create_uid_features(d)
      [] name = "create_uid_aggregations" -> create_uid_aggregations(d)
      [] name = "create_enhanced_frequency_features" -> create_enhanced_frequency_features(d)

-----------------------------------------------------------------------------
(* Input batches. *)

\* the raw columns the model carries, in the order of raw_data.csv
RawCols ==
    <<"TransactionID", "isFraud", "TransactionDT", "TransactionAmt", "ProductCD",
      "card1", "card2", "card3", "card4", "card5", "card6", "addr1", "addr2",
      "dist1", "P_emaildomain", "R_emaildomain", "D1", "V1", "V12",
      "id_01", "id_12", "id_30", "id_31", "id_33", "DeviceType", "DeviceInfo">>

\* the raw columns without those of the set drop
ColsWithout(drop) == SelectSeq(RawCols, LAMBDA c : c \notin drop)

NewRow(i, dt, card, amt, dom, y) ==
    [idx |-> i - 1, TransactionID |-> i, TransactionDT |-> dt, card_id |-> card,
     TransactionAmt |-> amt, P_emaildomain |-> dom, isFraud |-> y,
     prev_amount |-> 0, rolling_median_amt |-> NaN, Transaction_cnt_1hr |-> NaN,
     P_domain_fraud_rate |-> NaN]

TimeOrders(n) == {f \in [1..n -> 1..n] : \A i, j \in 1..n : i # j => f[i] # f[j]}

CardIds == {1, 2}

Amounts == {1, 3}

Domains == {"gmail.com", "yahoo.com"}

\* batches for the amount stage: any time order, two cards, two amounts
AmountBatches ==
    {[p \in 1..NAmountRows |-> NewRow(p, dt[p], card[p], amt[p], "gmail.com", 0)] :
        dt \in TimeOrders(NAmountRows),
        card \in [1..NAmountRows -> CardIds],
        amt \in [1..NAmountRows -> Amounts]}

\* seconds of TransactionDT less than, and more than, an hour apart
DtChoices == {1, 2, 3602}

\* batches for the time stage: any times, two cards
TimeBatches ==
    {[p \in 1..NAmountRows |-> NewRow(p, dt[p], card[p], 1, "gmail.com", 0)] :
        dt \in [1..NAmountRows -> DtChoices],
        card \in [1..NAmountRows -> CardIds]}

\* batches for the email stage, in time order: the second transaction is on either
\* card and all the others on one card, so the amount stage's sort either leaves the
\* rows in place or moves the second row to the front; two domains, any labels
EmailBatches ==
    LET n == n_splits + ExtraEmailRows
    IN  {[p \in 1..n |-> NewRow(p, p, IF p = 2 THEN c2 ELSE 2, 1, dom[p], y[p])] :
            c2 \in CardIds,
            dom \in [1..n -> Domains],
            y \in [1..n -> {0, 1}]}

\* columns a batch may lack
OptionalCols ==
    {"DeviceType", "DeviceInfo", "id_30", "id_31", "id_33", "id_12", "R_emaildomain", "D1"}

FixedBatch ==
    [p \in 1..n_splits |->
        NewRow(p, p, 1, 1, "gmail.com", IF p = 1 THEN 1 ELSE 0)]

-----------------------------------------------------------------------------
(* The batches handed to the prediction pipeline and to POST /predict. *)

\* a JSON value of a request field: a number, or the string "not_a_number"
JsonNumber(v) == [type |-> "number", v |-> v]

JsonString == [type |-> "string", v |-> 0]

\* the fields TransactionInput declares, among the columns the model carries
DeclaredFields ==
    <<"TransactionID", "TransactionDT", "TransactionAmt", "ProductCD",
      "card1", "card2", "card3", "card4", "card5", "card6", "addr1", "addr2",
      "dist1", "P_emaildomain", "R_emaildomain", "D1">>

\* TransactionAmt: Optional[float] -- a number validates, a string that is no number
\* raises ValidationError
Coercible(j) == j.type = "number"

\* the validation loop going on after a rejected transaction: the last one is named
FirstInvalid_last(txs) ==
    LET bad == {i \in 1..Len(txs) : ~Coercible(txs[i].TransactionAmt)}
    IN  IF bad = {} THEN -1 ELSE (CHOOSE i \in bad : \A j \in bad : i >= j) - 1

\* the index (0-based, as enumerate counts) of the first transaction that
\* TransactionInput rejects, -1 when every transaction validates
FirstInvalid(txs) ==
    LET bad == {i \in 1..Len(txs) : ~Coercible(txs[i].TransactionAmt)}
    IN  IF bad = {} THEN -1 ELSE (CHOOSE i \in bad : \A j \in bad : i <= j) - 1

\* the columns a batch may lack, and the target column it may carry in addition
AbsentChoices(c) ==
    IF c = "api" THEN {{}, {"TransactionID"}, {"DeviceType"}}
    ELSE {{}, {"TransactionAmt"}, {"TransactionID"}, {"DeviceType"}}

KeyChoices(c) ==
    {(ColSet(RawCols) \ absent) \ (IF label THEN {} ELSE {target_col}) :
        absent \in AbsentChoices(c), label \in BOOLEAN}

\* the values a batch may hold for TransactionAmt; only a JSON request can hold a string
AmtChoices(c) ==
    {JsonNumber(a) : a \in Amounts} \cup (IF c = "api" THEN {JsonString} ELSE {})

\* the identifiers of a batch are the client's own, none of them a row number
RequestRows(c, n) ==
    {[p \in 1..n |->
        [NewRow(p, dt[p], 1, amt[p], "gmail.com", 0) EXCEPT !.TransactionID = MaxBatch + p]] :
        dt \in TimeOrders(n), amt \in [1..n -> AmtChoices(c)]}

\* the keys a JSON client may write in lower case
LoweredChoices(c, keys) ==
    IF c = "api" THEN {{}} \cup {{k} : k \in {"TransactionID", "DeviceType"} \cap keys}
    ELSE {{}}

\* keys: the columns the batch carries; lowered: those of them written in lower case
Requests(c) ==
    UNION {{[keys |-> keys, lowered |-> lowered, rows |-> rows] :
                lowered \in LoweredChoices(c, keys),
                rows \in UNION {RequestRows(c, n) :
                                   n \in (IF c = "api" THEN 0 ELSE 1)..MaxBatch}} :
           keys \in KeyChoices(c)}

\* str.lower() on the names of the raw columns, in the order of RawCols
LowerCols ==
    <<"transactionid", "isfraud", "transactiondt", "transactionamt", "productcd",
      "card1", "card2", "card3", "card4", "card5", "card6", "addr1", "addr2",
      "dist1", "p_emaildomain", "r_emaildomain", "d1", "v1", "v12",
      "id_01", "id_12", "id_30", "id_31", "id_33", "devicetype", "deviceinfo">>

\* k.lower() for a column name or a name already in lower case
Lower(k) ==
    IF \E i \in 1..Len(RawCols) : RawCols[i] = k
    THEN LowerCols[CHOOSE i \in 1..Len(RawCols) : RawCols[i] = k]
    ELSE k

\* the keys as the request body spells them
SentKeys(req) == {IF k \in req.lowered THEN Lower(k) ELSE k : k \in req.keys}

\* key_map = {k.lower(): k for k in TransactionInput.model_fields.keys()}
key_map ==
    [l \in {Lower(k) : k \in ColSet(DeclaredFields)} |->
        CHOOSE k \in ColSet(DeclaredFields) : Lower(k) = l]

\* the key map matching the spelling exactly
NormalizeKey_exact(k) == k

\* the key a transaction's key k is stored under: the declared field it matches
\* whatever its case, else k itself
NormalizeKey(k) == IF Lower(k) \in DOMAIN key_map THEN key_map[Lower(k)] ELSE k

normalized_tx(req) == {NormalizeKey(k) : k \in SentKeys(req)}

NoRequest == [keys |-> {}, lowered |-> {}, rows |-> <<>>]

\* the rows as the data frame holds them: TransactionAmt as a float
FrameRows(txs) ==
    [p \in 1..Len(txs) |-> [txs[p] EXCEPT !.TransactionAmt = @.v]] \o <<>>

\* the frame a caller of predict / predict_proba hands in
CallerFrame(req) ==
    [rows |-> FrameRows(req.rows),
     cols |-> SelectSeq(RawCols, LAMBDA c : c \in req.keys)]

\* pd.DataFrame(validated_transactions): model_dump yields every declared field, then
\* the extra keys as they were sent; a TransactionID column that is all null is
\* filled with 1 .. n
ApiFrame(req) ==
    LET declared == ColSet(DeclaredFields)
        stored == normalized_tx(req)
        rows == FrameRows(req.rows)
    IN  [rows |-> IF "TransactionID" \in stored THEN rows
                  ELSE [p \in 1..Len(rows) |-> [rows[p] EXCEPT !.TransactionID = p]] \o <<>>,
         cols |-> DeclaredFields \o
                  SelectSeq(RawCols, LAMBDA c : c \in stored /\ c \notin declared) \o
                  SelectSeq(LowerCols, LAMBDA c : c \in stored /\ c \notin ColSet(RawCols))]

EmptyFrame == [rows |-> <<>>, cols |-> <<>>]

-----------------------------------------------------------------------------
(* config/schema.yaml: Read_write_yaml_schema and the dtype comparison. *)

\* a schema is a function from column names to dtype names; the file is a function
\* from entry names to schemas
NoSchemaFile == [exists |-> FALSE, content |-> <<>>]

SchemaFile(content) == [exists |-> TRUE, content |-> content]

\* str(dtype) of the columns as pd.read_csv types them
dtype_of(c) ==
    IF c \in {"ProductCD", "card4", "card6", "P_emaildomain", "R_emaildomain", "id_12",
              "id_30", "id_31", "id_33", "DeviceType", "DeviceInfo", "card_id",
              "uid1", "uid2", "uid3", "uid4"}
    THEN "object"
    ELSE IF c \in {"TransactionID", "isFraud", "TransactionDT", "card1"} THEN "int64"
    ELSE "float64"

\* {col: str(dtype) for col, dtype in df.dtypes.items()}
FrameSchema(cols) == [c \in ColSet(cols) |-> dtype_of(c)]

\* save_dataframe_schema with the file rewritten from the new entry alone
save_dataframe_schema_fresh(file, schema_name, schema) ==
    SchemaFile([n \in {schema_name} |-> schema])

\* save_dataframe_schema: content.update(new_schema) on what the file held, if it
\* existed, and the file written again
save_dataframe_schema(file, schema_name, schema) ==
    LET content == IF file.exists THEN file.content ELSE <<>>
    IN  SchemaFile([n \in DOMAIN content \cup {schema_name} |->
                      IF n = schema_name THEN schema ELSE content[n]])

\* expected.lower().replace('numpy.', '').replace('np.', '')
NormalizedDtype(d) ==
    CASE d = "Int64" -> "int64"
      [] d = "numpy.float64" -> "float64"
      [] OTHER -> d

int_types == {"int8", "int16", "int32", "int64", "uint8", "uint16", "uint32", "uint64"}

float_types == {"float16", "float32", "float64"}

object_types == {"object", "str", "string"}

\* the comparison answering compatible for every pair of dtypes
dtypes_compatible_always(expected, actual) == TRUE

dtypes_compatible(expected, actual) ==
    \/ expected = actual
    \/ \E family \in {int_types, float_types, object_types} :
          /\ NormalizedDtype(expected) \in family
          /\ NormalizedDtype(actual) \in family

\* what compare_schema computes and raises; raised is "None" when it returns
CompareResult(raised, missing, extra, mismatches) ==
    [raised |-> raised, match |-> missing = {} /\ extra = {} /\ mismatches = {},
     missing_columns |-> missing, extra_columns |-> extra,
     dtype_mismatches |-> mismatches]

\* compare_schema and compare_schema_for_model_training, which differ in the
\* exception a mismatch raises under strict: mismatch_error
compare(file, schema_name, actual, strict, mismatch_error) ==
    IF ~file.exists THEN CompareResult("FileNotFoundError", {}, {}, {})
    ELSE IF schema_name \notin DOMAIN file.content
    THEN CompareResult("ValueError", {}, {}, {})
    ELSE LET expected == file.content[schema_name]
             missing == DOMAIN expected \ DOMAIN actual
             extra == DOMAIN actual \ DOMAIN expected
             mismatches == {c \in DOMAIN expected \cap DOMAIN actual :
                               ~dtypes_compatible(expected[c], actual[c])}
             compared == CompareResult("None", missing, extra, mismatches)
         IN  IF ~compared.match /\ strict
             THEN [compared EXCEPT !.raised = mismatch_error]
             ELSE compared

compare_schema(file, schema_name, actual, strict) ==
    compare(file, schema_name, actual, strict, "SchemaValidationError")

compare_schema_for_model_training(file, schema_name, actual, strict) ==
    compare(file, schema_name, actual, strict, "ValueError")

\* no schema operation has been done
NoCheck ==
    [op |-> "None", pipeline |-> "None", schema_name |-> "None", strict |-> FALSE,
     actual |-> <<>>, result |-> CompareResult("None", {}, {}, {}),
     outcome |-> "None"]

SchemaCheck(op, pipeline, schema_name, strict, actual, compared, outcome) ==
    [op |-> op, pipeline |-> pipeline, schema_name |-> schema_name, strict |-> strict,
     actual |-> actual, result |-> compared, outcome |-> outcome]

-----------------------------------------------------------------------------
(* PredictionPipeline.predict and predict_proba. *)

\* the raw_data entry of schema.yaml: the columns of raw_data.csv
raw_schema == ColSet(RawCols)

raw_schema_name == "raw_data"

\* schema.yaml as data ingestion leaves it
IngestedSchemaFile == SchemaFile([n \in {raw_schema_name} |-> FrameSchema(RawCols)])

\* schema.yaml holding entries, none of them raw_data
OtherSchemaFile ==
    SchemaFile([n \in {"train_transaction"} |-> FrameSchema(<<"TransactionID", "TransactionAmt">>)])

\* apply_feature_engineering, steps 2 to 13 run one after the other; an exception
\* in a stage ends it
RECURSIVE RunStages(_, _, _)
RunStages(names, d, done) ==
    IF names = <<>> THEN [ok |-> TRUE, df |-> d, stages |-> done]
    ELSE IF StageRaises(Head(names), d)
         THEN [ok |-> FALSE, df |-> d, stages |-> Append(done, Head(names))]
         ELSE RunStages(Tail(names), StageApply(Head(names), d),
                        Append(done, Head(names)))

\* the columns the saved preprocessor was fitted on: the engineered training frame
\* without the target
feature_names_in ==
    ColSet(RunStages(RUN_stages, [rows |-> FixedBatch, cols |-> RawCols], <<>>).df.cols)
        \ {target_col}

\* models/preprocessor.joblib: not there, or the ColumnTransformer with the columns
\* it was fitted on
NoPreprocessor == [exists |-> FALSE, feature_names_in |-> {}]

Fitted(columns) == [exists |-> TRUE, feature_names_in |-> columns]

NoLoads == [model |-> 0, preprocessor |-> 0, fetch |-> 0]

\* the fitted estimator, a function of the feature row it is given
ModelOutput(row) == IF row.TransactionAmt >= 3 THEN 1 ELSE 0

\* the message of SchemaValidationError shows missing_columns[:10]
MessageLimit == 10

NoError == [type |-> "None", columns |-> {}]

\* what the except clauses let out: predict re-raises SchemaValidationError and
\* wraps every other exception in CustomException; predict_proba wraps them all
Raised(exc, columns) ==
    IF exc = "SchemaValidationError" /\ caller = "predict"
    THEN [type |-> exc, columns |-> columns]
    ELSE [type |-> "CustomException", columns |-> columns]

\* Step 1: the TransactionID column is stored, taken from the index when absent
StoreTransactionID ==
    /\ pc = "call"
    /\ LET d == IF HasCol(df, "TransactionID") THEN df
                ELSE [rows |-> [p \in 1..Len(df.rows) |->
                                  [df.rows[p] EXCEPT !.TransactionID = df.rows[p].idx]]
                               \o <<>>,
                      cols |-> Append(df.cols, "TransactionID")]
       IN  /\ df' = d
           /\ transaction_ids' = [p \in 1..Len(d.rows) |-> d.rows[p].TransactionID] \o <<>>
    /\ pc' = "validate"
    /\ UNCHANGED <<mode, stages, caller, prediction_pipeline, model, request, steps,
                   predictions, result, error, response>>
    /\ UNCHANGED envVars
    /\ UNCHANGED opsVars

validate_input_schema ==
    /\ pc = "validate"
    /\ steps' = Append(steps, "validate_input_schema")
    /\ IF ~schema_yaml.exists
       THEN pc' = "raised" /\ error' = Raised("FileNotFoundError", {})
       ELSE IF raw_schema_name \notin DOMAIN schema_yaml.content
       THEN pc' = "raised" /\ error' = Raised("ValueError", {})
       ELSE LET expected_cols == DOMAIN schema_yaml.content[raw_schema_name] \ {target_col}
                missing_columns == expected_cols \ ColSet(df.cols)
            IN  IF missing_columns = {}
                THEN /\ pc' = IF model = "None" THEN "load" ELSE "fe"
                     /\ error' = error
                ELSE /\ pc' = "raised"
                     /\ \E shown \in SUBSET missing_columns :
                           /\ Cardinality(shown) =
                                  Min(Cardinality(missing_columns), MessageLimit)
                           /\ error' = Raised("SchemaValidationError", shown)
    /\ UNCHANGED <<feVars, caller, prediction_pipeline, model, request, transaction_ids,
                   predictions, result, response>>
    /\ UNCHANGED envVars
    /\ UNCHANGED opsVars

\* load_model: the local copy is loaded; when there is none the model is fetched
\* from S3 first, and a failed download ends the load
LoadModelOutcomes ==
    IF model_joblib
    THEN {[loaded |-> TRUE, model_joblib |-> TRUE,
           loads |-> [loads EXCEPT !.model = @ + 1]]}
    ELSE {[loaded |-> TRUE, model_joblib |-> TRUE,
           loads |-> [loads EXCEPT !.model = @ + 1, !.fetch = @ + 1]],
          [loaded |-> FALSE, model_joblib |-> FALSE,
           loads |-> [loads EXCEPT !.fetch = @ + 1]]}

\* if self.model is None: self.load_model(model_path)
load_model ==
    /\ pc = "load"
    /\ steps' = Append(steps, "load_model")
    /\ \E o \in LoadModelOutcomes :
          /\ model_joblib' = o.model_joblib
          /\ loads' = o.loads
          /\ IF o.loaded
             THEN model' = "loaded" /\ pc' = "fe" /\ error' = error
             ELSE model' = model /\ pc' = "raised" /\ error' = Raised("CustomException", {})
    /\ UNCHANGED <<feVars, caller, prediction_pipeline, request, transaction_ids,
                   predictions, result, response>>
    /\ UNCHANGED <<schema_yaml, schema_check, artifacts, preprocessor_joblib, calls,
                   transformed>>
    /\ UNCHANGED opsVars

\* apply_feature_engineering whose exception does not end the call
apply_feature_engineering_swallow ==
    /\ pc = "fe"
    /\ steps' = Append(steps, "apply_feature_engineering")
    /\ LET run == RunStages(apply_feature_engineering_stages, df, <<>>)
       IN  /\ stages' = run.stages
           /\ df' = run.df
           /\ pc' = "preprocess"
           /\ error' = IF run.ok THEN error ELSE Raised("CustomException", {})
    /\ UNCHANGED <<mode, caller, prediction_pipeline, model, request, transaction_ids,
                   predictions, result, response>>
    /\ UNCHANGED envVars
    /\ UNCHANGED opsVars

apply_feature_engineering ==
    /\ pc = "fe"
    /\ steps' = Append(steps, "apply_feature_engineering")
    /\ LET run == RunStages(apply_feature_engineering_stages, df, <<>>)
       IN  /\ stages' = run.stages
           /\ IF run.ok
              THEN df' = run.df /\ pc' = "preprocess" /\ error' = error
              ELSE df' = df /\ pc' = "raised" /\ error' = Raised("CustomException", {})
    /\ UNCHANGED <<mode, caller, prediction_pipeline, model, request, transaction_ids,
                   predictions, result, response>>
    /\ UNCHANGED envVars
    /\ UNCHANGED opsVars

\* preprocess_for_inference fitting the preprocessor on the batch and saving it
preprocess_for_inference_refit ==
    /\ pc = "preprocess"
    /\ steps' = steps \o <<"preprocess_for_inference", "joblib.load">>
    /\ loads' = [loads EXCEPT !.preprocessor = @ + 1]
    /\ preprocessor_joblib' = Fitted(ColSet(df.cols))
    /\ pc' = "model_predict" /\ error' = error
    /\ UNCHANGED <<feVars, caller, prediction_pipeline, model, request, transaction_ids,
                   predictions, result, response>>
    /\ UNCHANGED <<schema_yaml, schema_check, artifacts, model_joblib, calls,
                   transformed>>
    /\ UNCHANGED opsVars

\* preprocessor.joblib is looked up and loaded here, on every call; transform raises
\* when a column the preprocessor was fitted on is absent
preprocess_for_inference ==
    /\ pc = "preprocess"
    /\ IF ~preprocessor_joblib.exists
       THEN /\ steps' = Append(steps, "preprocess_for_inference")
            /\ pc' = "raised" /\ error' = Raised("CustomException", {})
            /\ loads' = loads
       ELSE /\ steps' = steps \o <<"preprocess_for_inference", "joblib.load">>
            /\ loads' = [loads EXCEPT !.preprocessor = @ + 1]
            /\ IF preprocessor_joblib.feature_names_in \subseteq ColSet(df.cols)
               THEN pc' = "model_predict" /\ error' = error
               ELSE pc' = "raised" /\ error' = Raised("CustomException", {})
    /\ UNCHANGED <<feVars, caller, prediction_pipeline, model, request, transaction_ids,
                   predictions, result, response>>
    /\ UNCHANGED <<schema_yaml, schema_check, artifacts, preprocessor_joblib,
                   model_joblib, calls, transformed>>
    /\ UNCHANGED opsVars

\* predictions = self.model.predict(X_processed): one output per row of the
\* engineered frame, in the order of its rows
model_predict ==
    /\ pc = "model_predict"
    /\ steps' = Append(steps, "model.predict")
    /\ predictions' = [p \in 1..Len(df.rows) |-> ModelOutput(df.rows[p])] \o <<>>
    /\ pc' = "result"
    /\ UNCHANGED <<feVars, caller, prediction_pipeline, model, request, transaction_ids,
                   result, error, response>>
    /\ UNCHANGED envVars
    /\ UNCHANGED opsVars

\* result_df = pd.DataFrame({'TransactionID': transaction_ids.values,
\*                           'prediction_isFraud': predictions})
result_df ==
    /\ pc = "result"
    /\ steps' = Append(steps, "result_df")
    /\ result' = [p \in 1..Len(predictions) |->
                    [TransactionID |-> transaction_ids[p],
                     prediction_isFraud |-> predictions[p]]] \o <<>>
    /\ pc' = "returned"
    /\ UNCHANGED <<feVars, caller, prediction_pipeline, model, request, transaction_ids,
                   predictions, error, response>>
    /\ UNCHANGED envVars
    /\ UNCHANGED opsVars

NextPipeline ==
    \/ StoreTransactionID \/ validate_input_schema \/ load_model
    \/ apply_feature_engineering \/ preprocess_for_inference \/ model_predict
    \/ result_df

-----------------------------------------------------------------------------
(* A feature-engineering run: the stages of RUN or of apply_feature_engineering, *)
(* one after the other.                                                          *)

\* RUN reads raw_data.csv (step 1); the frame has the labels 0 .. n-1.  Step 1.5
\* compares it with the raw_data entry of schema.yaml under strict: a missing file or
\* entry is a first run and RUN goes on, a mismatch ends the run
RUN_read ==
    /\ pc = "start" /\ mode = "train"
    /\ LET actual == FrameSchema(df.cols)
           r == compare_schema(schema_yaml, raw_schema_name, actual, TRUE)
           aborts == r.raised \notin {"None", "FileNotFoundError", "ValueError"}
       IN  /\ schema_check' = SchemaCheck("compare", "RUN", raw_schema_name, TRUE, actual, r,
                                          IF aborts THEN "aborted" ELSE "continued")
           /\ pc' = IF aborts THEN "run_failed" ELSE "fe"
           /\ error' = IF aborts THEN [type |-> "CustomException", columns |-> {}]
                       ELSE error
    /\ UNCHANGED <<feVars, caller, prediction_pipeline, model, request, transaction_ids,
                   steps, predictions, result, response>>
    /\ UNCHANGED <<schema_yaml, artifacts, preprocessor_joblib, model_joblib, loads, calls,
                   transformed>>
    /\ UNCHANGED opsVars

\* apply_feature_engineering step 1: reduce_memory, whose failure is only logged
reduce_memory_step ==
    /\ pc = "start" /\ mode = "infer"
    /\ pc' = "fe"
    /\ UNCHANGED <<feVars, reqVars>>
    /\ UNCHANGED envVars
    /\ UNCHANGED opsVars

\* the stages going on after one of them raised
FEStage_continue ==
    /\ pc = "fe"
    /\ LET name == StagesOf(mode)[Len(stages) + 1]
       IN  /\ stages' = Append(stages, name)
           /\ df' = IF StageRaises(name, df) THEN df ELSE StageApply(name, df)
           /\ pc' = IF Len(stages) + 1 = Len(StagesOf(mode)) THEN "fe_done" ELSE "fe"
    /\ UNCHANGED <<mode, reqVars>>
    /\ UNCHANGED envVars
    /\ UNCHANGED opsVars

\* the next stage of the list; an exception in it ends the run
FEStage ==
    /\ pc = "fe"
    /\ LET name == StagesOf(mode)[Len(stages) + 1]
       IN  /\ stages' = Append(stages, name)
           /\ IF StageRaises(name, df)
              THEN pc' = "fe_failed" /\ df' = df
              ELSE /\ df' = StageApply(name, df)
                   /\ pc' = IF Len(stages) + 1 = Len(StagesOf(mode))
                            THEN "fe_done" ELSE "fe"
    /\ UNCHANGED <<mode, reqVars>>
    /\ UNCHANGED envVars
    /\ UNCHANGED opsVars

\* the feature engineering of RUN and of apply_feature_engineering
NextFE == RUN_read \/ reduce_memory_step \/ FEStage

\* the columns of the frames preprocessor returns: the numeric and the categorical
\* columns under their names, the columns whose name starts with 'V' replaced by
\* principal components, the target put back last
v_cols(cols) == SelectSeq(cols, LAMBDA c : c \in VColumns \cup ColSet(VAllCols))

Processed(cols) ==
    SelectSeq(cols, LAMBDA c : c \notin ColSet(v_cols(cols)) /\ c # target_col)
        \o (IF v_cols(cols) = <<>> THEN <<>> ELSE <<"pca0">>)
        \o <<target_col>>

\* <<>> stands for None
NoTransformed == [Train_transformed |-> <<>>, Test_transformed |-> <<>>]

\* step 14: preprocessor(df) splits, fits the ColumnTransformer on the train part,
\* dumps it to models/preprocessor.joblib (a failed dump is only logged) and
\* transforms the test part.  df['isFraud'] raises KeyError when the target is
\* absent; the split, the fit and the transform can raise on the data.  RUN takes any
\* exception of it as non-critical and goes on with the engineered frame
RUN_preprocessor ==
    /\ pc = "fe_done" /\ mode = "train"
    /\ \E splits \in BOOLEAN, dumped \in BOOLEAN, transforms \in BOOLEAN :
          LET fits == HasCol(df, target_col) /\ splits
          IN  /\ preprocessor_joblib' =
                     IF fits /\ dumped THEN Fitted(ColSet(df.cols) \ {target_col})
                     ELSE preprocessor_joblib
              /\ transformed' =
                     IF fits /\ transforms
                     THEN [Train_transformed |-> Processed(df.cols),
                           Test_transformed |-> Processed(df.cols)]
                     ELSE [Train_transformed |-> df.cols, Test_transformed |-> <<>>]
    /\ pc' = "save"
    /\ UNCHANGED <<feVars, reqVars>>
    /\ UNCHANGED <<schema_yaml, schema_check, artifacts, model_joblib, loads, calls>>
    /\ UNCHANGED opsVars

\* step 15: Train_transformed.csv, and Test_transformed.csv when there is a test
\* frame; a failure to write ends the run
RUN_save ==
    /\ pc = "save"
    /\ \E written \in BOOLEAN :
          IF written
          THEN /\ artifacts' = artifacts \cup {"Train_transformed.csv"} \cup
                      (IF transformed.Test_transformed = <<>> THEN {}
                       ELSE {"Test_transformed.csv"})
               /\ pc' = "save_schema"
               /\ error' = error
          ELSE /\ artifacts' = artifacts
               /\ pc' = "run_failed"
               /\ error' = [type |-> "CustomException", columns |-> {}]
    /\ UNCHANGED <<feVars, caller, prediction_pipeline, model, request, transaction_ids,
                   steps, predictions, result, response>>
    /\ UNCHANGED <<schema_yaml, schema_check, preprocessor_joblib, model_joblib, loads,
                   calls, transformed>>
    /\ UNCHANGED opsVars

\* step 16: the preprocessed_train entry, and preprocessed_test when there is a test
\* frame; a failure to write schema.yaml is only logged
RUN_save_schema ==
    /\ pc = "save_schema"
    /\ \E written \in BOOLEAN :
          LET train == save_dataframe_schema(schema_yaml, "preprocessed_train",
                                             FrameSchema(transformed.Train_transformed))
          IN  schema_yaml' =
                  IF ~written THEN schema_yaml
                  ELSE IF transformed.Test_transformed = <<>> THEN train
                  ELSE save_dataframe_schema(train, "preprocessed_test",
                                             FrameSchema(transformed.Test_transformed))
    /\ pc' = "run_done"
    /\ UNCHANGED <<feVars, reqVars>>
    /\ UNCHANGED <<schema_check, artifacts, preprocessor_joblib, model_joblib, loads,
                   calls, transformed>>
    /\ UNCHANGED opsVars

\* RUN from its first step to its last
NextRUN == RUN_read \/ FEStage \/ RUN_preprocessor \/ RUN_save \/ RUN_save_schema

-----------------------------------------------------------------------------
(* The training pipelines at schema.yaml: data ingestion, the transformation run's *)
(* save, and model training.                                                       *)

\* the dtypes a column of a frame may have
Dtypes == {"int64", "Int64", "int32", "float64", "object", "string", "bool"}

\* the frames handed to the pipelines: TransactionAmt of any dtype, and ProductCD
\* beside it or not
FrameSchemas ==
    {[c \in {"TransactionAmt"} |-> d] : d \in Dtypes}
        \cup {[c \in {"TransactionAmt", "ProductCD"} |->
                 IF c = "TransactionAmt" THEN "int64" ELSE "object"]}

\* train_identity.csv
IdentitySchema == [c \in {"DeviceType"} |-> "object"]

\* a schema.yaml with entries for the two input files of data ingestion
InputSchemaFile ==
    SchemaFile([n \in {"train_transaction", "train_identity"} |->
                  IF n = "train_transaction" THEN [c \in {"TransactionAmt"} |-> "float64"]
                  ELSE IdentitySchema])

\* what a caller makes of compare_schema when it takes FileNotFoundError and
\* ValueError as a first run and stops on any other exception
FirstRunOrAbort(r) ==
    IF r.raised \in {"None", "FileNotFoundError", "ValueError"} THEN "continued"
    ELSE "aborted"

\* DataIngestion.run: validate_input_schemas compares the two input frames under
\* strict; then the frames are merged, raw_data.csv is written and the merged
\* frame's schema is saved as raw_data
DataIngestion_run ==
    /\ pc = "schema"
    /\ \E df_transaction \in FrameSchemas :
          LET first == compare_schema(schema_yaml, "train_transaction", df_transaction, TRUE)
              second == compare_schema(schema_yaml, "train_identity", IdentitySchema, TRUE)
              merged == [c \in DOMAIN df_transaction \cup DOMAIN IdentitySchema |->
                            IF c \in DOMAIN df_transaction THEN df_transaction[c]
                            ELSE IdentitySchema[c]]
          IN  IF first.raised # "None"
              THEN /\ schema_check' = SchemaCheck("compare", "ingestion", "train_transaction",
                                          TRUE, df_transaction, first, FirstRunOrAbort(first))
                   /\ IF FirstRunOrAbort(first) = "aborted"
                      THEN UNCHANGED <<schema_yaml, artifacts>>
                      ELSE /\ schema_yaml' =
                                  save_dataframe_schema(schema_yaml, raw_schema_name, merged)
                           /\ artifacts' = artifacts \cup {"raw_data.csv"}
              ELSE /\ schema_check' = SchemaCheck("compare", "ingestion", "train_identity",
                                          TRUE, IdentitySchema, second, FirstRunOrAbort(second))
                   /\ IF FirstRunOrAbort(second) = "aborted"
                      THEN UNCHANGED <<schema_yaml, artifacts>>
                      ELSE /\ schema_yaml' =
                                  save_dataframe_schema(schema_yaml, raw_schema_name, merged)
                           /\ artifacts' = artifacts \cup {"raw_data.csv"}
    /\ UNCHANGED <<pc, feVars, reqVars>>
    /\ UNCHANGED <<preprocessor_joblib, model_joblib, loads, calls, transformed>>
    /\ UNCHANGED opsVars

\* step 16 of a transformation run on any frame
SaveSchema ==
    /\ pc = "schema"
    /\ \E Train_transformed \in FrameSchemas :
          /\ schema_yaml' =
                 save_dataframe_schema(schema_yaml, "preprocessed_train", Train_transformed)
          /\ schema_check' = SchemaCheck("save", "RUN", "preprocessed_train", FALSE,
                                         Train_transformed, NoCheck.result, "saved")
    /\ UNCHANGED <<pc, feVars, reqVars>>
    /\ UNCHANGED <<artifacts, preprocessor_joblib, model_joblib, loads, calls, transformed>>
    /\ UNCHANGED opsVars

\* ModelTraining.validate_schema and its caller, which goes on to prepare the
\* features whatever validate_schema returns: FileNotFoundError and ValueError are
\* taken as a missing schema, any other exception stops training under strict
ModelTraining_validate_schema ==
    /\ pc = "schema"
    /\ \E train_df \in FrameSchemas, strict_schema_validation \in BOOLEAN :
          LET r == compare_schema_for_model_training(schema_yaml, "preprocessed_train",
                                                     train_df, strict_schema_validation)
              outcome == IF r.raised \in {"None", "FileNotFoundError", "ValueError"}
                         THEN "continued"
                         ELSE IF strict_schema_validation THEN "aborted" ELSE "continued"
          IN  schema_check' = SchemaCheck("compare", "training", "preprocessed_train",
                                          strict_schema_validation, train_df, r, outcome)
    /\ UNCHANGED <<pc, feVars, reqVars>>
    /\ UNCHANGED <<schema_yaml, artifacts, preprocessor_joblib, model_joblib, loads, calls,
                   transformed>>
    /\ UNCHANGED opsVars

NextSchema == DataIngestion_run \/ SaveSchema \/ ModelTraining_validate_schema

-----------------------------------------------------------------------------
(* The API: lifespan and POST /predict. *)

NoResponse ==
    [status |-> 0, row |-> -1, predictions |-> <<>>,
     total |-> 0, fraud_count |-> 0, fraud_rate |-> 0]

\* raise HTTPException(status_code=...); row is the row index the detail names
HTTPException(status_code, row) ==
    [status |-> status_code, row |-> row, predictions |-> <<>>,
     total |-> 0, fraud_count |-> 0, fraud_rate |-> 0]

\* round(n / d * 100, 2) in hundredths: the nearest hundredth of the percentage,
\* a tie going to the even one
RoundedPercent(n, d) ==
    LET q == (10000 * n) \div d
        r == (10000 * n) % d
    IN  IF 2 * r > d \/ (2 * r = d /\ q % 2 = 1) THEN q + 1 ELSE q

\* the response with the rate left a fraction of one
BatchPredictionResponse_fraction(res) ==
    LET preds == [p \in 1..Len(res) |->
                    [TransactionID |-> res[p].TransactionID,
                     isFraud |-> res[p].prediction_isFraud]] \o <<>>
        fraud_count == Cardinality({p \in 1..Len(preds) : preds[p].isFraud = 1})
    IN  [status |-> 200, row |-> -1, predictions |-> preds,
         total |-> Len(preds), fraud_count |-> fraud_count,
         fraud_rate |-> IF Len(preds) > 0 THEN (100 * fraud_count) \div Len(preds)
                        ELSE 0]

\* the response body of a successful request; fraud_rate is held in hundredths of
\* a percent
BatchPredictionResponse(res) ==
    LET preds == [p \in 1..Len(res) |->
                    [TransactionID |-> res[p].TransactionID,
                     isFraud |-> res[p].prediction_isFraud]] \o <<>>
        fraud_count == Cardinality({p \in 1..Len(preds) : preds[p].isFraud = 1})
    IN  [status |-> 200, row |-> -1, predictions |-> preds,
         total |-> Len(preds), fraud_count |-> fraud_count,
         fraud_rate |-> IF Len(preds) > 0 THEN RoundedPercent(fraud_count, Len(preds))
                        ELSE 0]

-----------------------------------------------------------------------------
(* Model training and the versioned model store: ModelTraining.train,          *)
(* ModelTraining.save_model, S3ModelUploader and fetch_model_from_s3.  A folder *)
(* name is the sequence of its parts between underscores; a part is a word, or *)
(* "v" followed by a number.                                                   *)

\* training runs in a row
MaxRuns == 2

\* PredictionConfig.model_name
model_name == "XGBClassifier"

Word(w) == [word |-> w, num |-> -1]

\* the part "v{n}"
V(n) == [word |-> "v", num |-> n]

\* f"{model_name}_v{version}"
VersionFolder(name, version) == <<Word(name), V(version)>>

\* the words that start with the letter v
VWords == {"v", "vote"}

\* the object {s3_prefix}{folder}/{file}, written by training run number run (0: put
\* there by other means)
S3Object(folder, file, run) == [folder |-> folder, file |-> file, run |-> run]

\* f"{model_name}_latest.joblib", directly under the prefix
LatestKey == [folder |-> <<>>, file |-> "XGBClassifier_latest.joblib"]

\* the model file save_model writes into the versioned folder
ModelFile == "XGBClassifier.onnx"

\* CommonPrefixes of list_objects_v2(Prefix=s3_prefix, Delimiter='/')
CommonPrefixes(objects) == {o.folder : o \in {x \in objects : x.folder # <<>>}}

\* folder_name.startswith(model_name + '_v')
StartsWithModelV(folder_name, name) ==
    /\ Len(folder_name) >= 2
    /\ folder_name[1] = Word(name)
    /\ folder_name[2].word \in VWords

\* version_part = folder_name.split('_')[-1]; version_part.startswith('v') and
\* int(version_part[1:]) does not raise ValueError
ParsedVersions(folders, name) ==
    {f[Len(f)].num : f \in {g \in folders : /\ StartsWithModelV(g, name)
                                           /\ g[Len(g)].word = "v"
                                           /\ g[Len(g)].num >= 0}}

MaxOf(S) == CHOOSE n \in S : \A m \in S : m <= n

\* the count of the version folders plus one
get_next_version_by_count(folders, name, listed) ==
    IF ~listed THEN 1 ELSE Cardinality(ParsedVersions(folders, name)) + 1

\* get_next_version_from_s3: max(versions) + 1, 1 without versions, and 1 when the
\* listing raises (listed is FALSE)
get_next_version_from_s3(folders, name, listed) ==
    IF ~listed THEN 1
    ELSE IF ParsedVersions(folders, name) = {} THEN 1
    ELSE MaxOf(ParsedVersions(folders, name)) + 1

\* the calls of mlflow in ModelTraining.train, in the order train makes them
TrackingCalls == <<"set_experiment", "start_run", "log_param", "log_metric",
                   "log_artifact">>

\* the tracking calls made before model.fit
BeforeFit == {"set_experiment", "start_run", "log_param"}

NoTrainer == [run |-> 0, failed_call |-> "none", fitted |-> FALSE, model |-> "None",
              listed |-> FALSE, version |-> 0, uploaded |-> FALSE]

NoFetch == [done |-> FALSE, ok |-> FALSE, run |-> 0]

\* ModelTraining.train: every mlflow call sits in the one try block, whose handler
\* raises CustomException
ModelTraining_train ==
    /\ pc = "train"
    /\ \E failed \in {"none"} \cup {TrackingCalls[i] : i \in 1..Len(TrackingCalls)} :
          /\ trainer' = [trainer EXCEPT
                            !.failed_call = failed,
                            !.fitted = failed \notin BeforeFit,
                            !.model = IF failed = "none" THEN "fitted" ELSE "None"]
          /\ pc' = IF failed = "none" THEN "save_model" ELSE "train_failed"
    /\ UNCHANGED <<feVars, reqVars, envVars, driftVars, health, s3_objects, fetched>>

\* ModelTraining.save_model: the next version from the store, and the local folder
\* {model_name}_v{version} made with exist_ok=True
ModelTraining_save_model ==
    /\ pc = "save_model"
    /\ \E listed \in BOOLEAN :
          trainer' = [trainer EXCEPT
                         !.listed = listed,
                         !.version = get_next_version_from_s3(
                                         CommonPrefixes(s3_objects), model_name, listed)]
    /\ pc' = "upload"
    /\ UNCHANGED <<feVars, reqVars, envVars, driftVars, health, s3_objects, fetched>>

\* S3ModelUploader.upload_model_to_s3: every file of the local folder is put under
\* {s3_prefix}{model_name}_v{version}/, replacing what the key held; a failure is
\* logged and the run goes on
upload_model_to_s3 ==
    /\ pc = "upload"
    /\ \E success \in BOOLEAN :
          /\ trainer' = [trainer EXCEPT !.uploaded = success]
          /\ s3_objects' =
                IF success
                THEN LET folder == VersionFolder(model_name, trainer.version)
                     IN  {o \in s3_objects : ~(o.folder = folder /\ o.file = ModelFile)}
                             \cup {S3Object(folder, ModelFile, trainer.run)}
                ELSE s3_objects
    /\ pc' = "trained"
    /\ UNCHANGED <<feVars, reqVars, envVars, driftVars, health, fetched>>

\* PredictionPipeline.fetch_model_from_s3 of an inference process with model_version
\* "latest" and no local copy: download_file of {s3_prefix}{model_name}_latest.joblib,
\* which raises when the bucket has no such key
fetch_model_from_s3 ==
    /\ pc = "trained"
    /\ ~fetched.done
    /\ LET held == {o \in s3_objects : o.folder = LatestKey.folder
                                       /\ o.file = LatestKey.file}
       IN  fetched' = IF held # {}
                      THEN [done |-> TRUE, ok |-> TRUE,
                            run |-> (CHOOSE o \in held : TRUE).run]
                      ELSE [done |-> TRUE, ok |-> FALSE, run |-> 0]
    /\ UNCHANGED <<pc, feVars, reqVars, envVars, driftVars, health, s3_objects, trainer>>

\* the pipeline is run again
next_run ==
    /\ pc \in {"trained", "train_failed"}
    /\ trainer.run < MaxRuns
    /\ trainer' = [NoTrainer EXCEPT !.run = trainer.run + 1]
    /\ fetched' = NoFetch
    /\ pc' = "train"
    /\ UNCHANGED <<feVars, reqVars, envVars, driftVars, health, s3_objects>>

NextTrain ==
    \/ ModelTraining_train \/ ModelTraining_save_model \/ upload_model_to_s3
    \/ fetch_model_from_s3 \/ next_run

-----------------------------------------------------------------------------
(* The drift detector of the API: FraudDriftDetector and its global instance. *)
(* Probabilities are held in percent, scores as fractions in lowest terms.    *)

\* FraudDriftDetector(window_size=1000): the maxlen of the deque
window_size == 1000

\* calculate_prediction_drift and calculate_label_drift return 0.0 below this length
min_window == 100

\* predict_batch checks the drift when the window length is a multiple of this
check_modulus == 100

\* baseline_fraud_rate = 0.035, in thousandths
baseline_fraud_rate == 35

\* model.predict_proba(X)[:, 1] of a row, in percent: above one half exactly when
\* model.predict gives 1
fraud_probability(prediction) == IF prediction = 1 THEN 90 ELSE 10

Probabilities == {fraud_probability(0), fraud_probability(1)}

RatGreater(a, b) == a[1] * b[2] > b[1] * a[2]

\* an append that never evicts
deque_append_unbounded(window, prob) == Append(window, prob)

\* prediction_window.append(prob) on a deque(maxlen=window_size): a full deque drops
\* its oldest element
deque_append(window, prob) ==
    IF Len(window) >= window_size THEN Append(Tail(window), prob)
    ELSE Append(window, prob)

\* for prob in fraud_probabilities: self.prediction_window.append(prob)
RECURSIVE extend(_, _)
extend(window, fraud_probabilities) ==
    IF fraud_probabilities = <<>> THEN window
    ELSE extend(deque_append(window, Head(fraud_probabilities)),
                Tail(fraud_probabilities))

\* the statistics stats.ks_2samp may give against the reference sample, which is
\* drawn at random when the detector is built
KsStatistics == {Rat(0, 1), Rat(3, 10), Rat(1, 2), Rat(1, 1)}

\* the KS statistic whatever the length of the window
calculate_prediction_drift_always(window, ks_statistic) == ks_statistic

calculate_prediction_drift(window, ks_statistic) ==
    IF Len(window) < min_window THEN Rat(0, 1) ELSE ks_statistic

\* abs((current_predictions > 0.5).mean() - baseline_fraud_rate)
calculate_label_drift(window) ==
    IF Len(window) < min_window THEN Rat(0, 1)
    ELSE LET n == Len(window)
             frauds == Cardinality({i \in 1..n : window[i] > 50})
             diff == 1000 * frauds - baseline_fraud_rate * n
         IN  Rat(IF diff < 0 THEN -diff ELSE diff, 1000 * n)

\* what check_drift returns on the window, ks_statistic being the outcome of the KS test
drift_report(window, ks_statistic) ==
    LET pred_drift == calculate_prediction_drift(window, ks_statistic)
        label_drift == calculate_label_drift(window)
    IN  [prediction_drift |-> pred_drift,
         prediction_drift_alert |-> RatGreater(pred_drift, Rat(3, 10)),
         label_drift |-> label_drift,
         label_drift_alert |-> RatGreater(label_drift, Rat(5, 100)),
         samples_in_window |-> Len(window)]

\* a direct call of drift_detector.add_prediction
add_prediction ==
    /\ pc = "detector"
    /\ calls < MaxCalls
    /\ calls' = calls + 1
    /\ \E prob \in Probabilities :
          /\ prediction_window' = deque_append(prediction_window, prob)
          /\ arrivals' = Append(arrivals, prob)
    /\ drift_results' = <<>>
    /\ UNCHANGED <<pc, feVars, reqVars, health, storeVars>>
    /\ UNCHANGED <<schema_yaml, schema_check, artifacts, preprocessor_joblib, model_joblib,
                   loads, transformed>>

\* the batches handed to add_predictions_batch
ProbabilityBatches == UNION {[1..n -> Probabilities] : n \in 0..MaxBatch}

\* a direct call of drift_detector.add_predictions_batch
add_predictions_batch ==
    /\ pc = "detector"
    /\ calls < MaxCalls
    /\ calls' = calls + 1
    /\ \E fraud_probabilities \in ProbabilityBatches :
          /\ prediction_window' = extend(prediction_window, fraud_probabilities)
          /\ arrivals' = arrivals \o fraud_probabilities
    /\ drift_results' = <<>>
    /\ UNCHANGED <<pc, feVars, reqVars, health, storeVars>>
    /\ UNCHANGED <<schema_yaml, schema_check, artifacts, preprocessor_joblib, model_joblib,
                   loads, transformed>>

\* a direct call of drift_detector.check_drift
check_drift ==
    /\ pc = "detector"
    /\ drift_results = <<>>
    /\ \E ks_statistic \in KsStatistics :
          drift_results' = <<drift_report(prediction_window, ks_statistic)>>
    /\ UNCHANGED <<pc, feVars, reqVars, envVars, prediction_window, arrivals, health,
                   storeVars>>

NextDetector == add_prediction \/ add_predictions_batch \/ check_drift

\* startup: PredictionPipeline() and load_model(); a failure of either is logged and
\* the API starts without a model
lifespan ==
    /\ pc = "boot"
    /\ \E created \in BOOLEAN :
          IF created
          THEN \E o \in LoadModelOutcomes :
                  /\ prediction_pipeline' = "PredictionPipeline"
                  /\ model' = IF o.loaded THEN "loaded" ELSE "None"
                  /\ model_joblib' = o.model_joblib
                  /\ loads' = o.loads
          ELSE /\ prediction_pipeline' = "None" /\ model' = "None"
               /\ UNCHANGED <<model_joblib, loads>>
    /\ pc' = "idle"
    /\ UNCHANGED <<feVars, caller, request, transaction_ids, steps, predictions,
                   result, error, response>>
    /\ UNCHANGED <<schema_yaml, schema_check, artifacts, preprocessor_joblib, calls,
                   transformed>>
    /\ UNCHANGED opsVars

\* the handler with the empty-batch check ahead of the model check
predict_batch_empty_first ==
    /\ pc = "idle"
    /\ IF request.rows = <<>>
       THEN response' = HTTPException(400, -1) /\ pc' = "responded" /\ df' = df
       ELSE IF prediction_pipeline = "None" \/ model = "None"
       THEN response' = HTTPException(503, -1) /\ pc' = "responded" /\ df' = df
       ELSE IF FirstInvalid(request.rows) # -1
       THEN /\ response' = HTTPException(422, FirstInvalid(request.rows))
            /\ pc' = "responded" /\ df' = df
       ELSE response' = response /\ pc' = "call" /\ df' = ApiFrame(request)
    /\ UNCHANGED <<mode, stages, caller, prediction_pipeline, model, request,
                   transaction_ids, steps, predictions, result, error>>
    /\ UNCHANGED envVars
    /\ UNCHANGED opsVars

\* the handler up to the call of prediction_pipeline.predict_proba(df)
predict_batch ==
    /\ pc = "idle"
    /\ IF prediction_pipeline = "None" \/ model = "None"
       THEN response' = HTTPException(503, -1) /\ pc' = "responded" /\ df' = df
       ELSE IF request.rows = <<>>
       THEN response' = HTTPException(400, -1) /\ pc' = "responded" /\ df' = df
       ELSE IF FirstInvalid(request.rows) # -1
       THEN /\ response' = HTTPException(422, FirstInvalid(request.rows))
            /\ pc' = "responded" /\ df' = df
       ELSE response' = response /\ pc' = "call" /\ df' = ApiFrame(request)
    /\ UNCHANGED <<mode, stages, caller, prediction_pipeline, model, request,
                   transaction_ids, steps, predictions, result, error>>
    /\ UNCHANGED envVars
    /\ UNCHANGED opsVars

\* the handler after predict_proba: the predictions in the order of result_df, or
\* HTTP 500 for the exception that came out of it
predict_batch_respond ==
    /\ caller = "api"
    /\ pc \in {"returned", "raised"}
    /\ response' = IF pc = "raised" THEN HTTPException(500, -1)
                   ELSE BatchPredictionResponse(result)
    /\ pc' = "responded"
    /\ IF pc = "raised"
       THEN UNCHANGED driftVars
       ELSE LET drift_values == [p \in 1..Len(result) |->
                                   fraud_probability(result[p].prediction_isFraud)] \o <<>>
                window == extend(prediction_window, drift_values)
            IN  /\ prediction_window' = window
                /\ arrivals' = arrivals \o drift_values
                /\ IF Len(window) % check_modulus = 0
                   THEN \E ks_statistic \in KsStatistics :
                           drift_results' = <<drift_report(window, ks_statistic)>>
                   ELSE drift_results' = <<>>
    /\ UNCHANGED <<feVars, caller, prediction_pipeline, model, request, transaction_ids,
                   steps, predictions, result, error>>
    /\ UNCHANGED envVars
    /\ UNCHANGED <<health, storeVars>>

\* GET /health with model_loaded telling only whether a pipeline exists
health_check_pipeline_only ==
    /\ caller = "api"
    /\ pc \in {"idle", "responded"}
    /\ health = <<>>
    /\ health' = <<[status_code |-> 200, status |-> "healthy",
                    model_loaded |-> prediction_pipeline # "None",
                    model_version |-> "latest"]>>
    /\ UNCHANGED <<pc, feVars, reqVars, envVars, driftVars, storeVars>>

\* GET /health, served once the API has started
health_check ==
    /\ caller = "api"
    /\ pc \in {"idle", "responded"}
    /\ health = <<>>
    /\ health' = <<[status_code |-> 200, status |-> "healthy",
                    model_loaded |-> prediction_pipeline # "None" /\ model # "None",
                    model_version |-> "latest"]>>
    /\ UNCHANGED <<pc, feVars, reqVars, envVars, driftVars, storeVars>>

Next == lifespan \/ predict_batch \/ predict_batch_respond \/ NextPipeline

NextHealth == Next \/ health_check

\* the requests that follow the first one on the same process: the first one's
\* caller and keys, any rows
FollowingRequests ==
    {r \in Requests(caller) : r.keys = request.keys /\ r.lowered = request.lowered
                              /\ Len(r.rows) <= 1}

\* the next POST /predict, or the next call of predict / predict_proba on the
\* pipeline: the process keeps its pipeline, its model and the files on disk
next_call ==
    /\ calls < MaxCalls
    /\ \/ caller = "api" /\ pc = "responded"
       \/ caller # "api" /\ pc \in {"returned", "raised"}
    /\ calls' = calls + 1
    /\ \E r \in FollowingRequests :
          /\ request' = r
          /\ IF caller = "api" THEN pc' = "idle" /\ df' = EmptyFrame
             ELSE pc' = "call" /\ df' = CallerFrame(r)
    /\ stages' = <<>>
    /\ transaction_ids' = <<>>
    /\ steps' = <<>>
    /\ predictions' = <<>>
    /\ result' = <<>>
    /\ error' = NoError
    /\ response' = NoResponse
    /\ UNCHANGED <<mode, caller, prediction_pipeline, model>>
    /\ UNCHANGED <<schema_yaml, schema_check, artifacts, preprocessor_joblib, model_joblib,
                   loads, transformed>>
    /\ drift_results' = <<>>
    /\ UNCHANGED <<prediction_window, arrivals, health, storeVars>>

NextCalls == Next \/ next_call

\* the model file reaches the local model directory while the API is up
model_arrives ==
    /\ caller = "api"
    /\ pc = "responded"
    /\ ~model_joblib
    /\ model_joblib' = TRUE
    /\ UNCHANGED <<pc, feVars, reqVars, opsVars>>
    /\ UNCHANGED <<schema_yaml, schema_check, artifacts, preprocessor_joblib, loads, calls,
                   transformed>>

NextLate == NextCalls \/ model_arrives

-----------------------------------------------------------------------------
(* Initial states. *)

\* nothing of a request has happened yet
Fresh ==
    /\ stages = <<>>
    /\ transaction_ids = <<>>
    /\ steps = <<>>
    /\ predictions = <<>>
    /\ result = <<>>
    /\ error = NoError
    /\ response = NoResponse

\* a feature-engineering run on its own
FERun ==
    /\ mode \in {"train", "infer"}
    /\ pc = "start"
    /\ caller = IF mode = "train" THEN "RUN" ELSE "apply_feature_engineering"
    /\ prediction_pipeline = "None"
    /\ model = "None"
    /\ request = NoRequest
    /\ Fresh

\* the drift detector as constructed, no health request, an empty bucket, no
\* training run
FreshOps ==
    /\ prediction_window = <<>>
    /\ arrivals = <<>>
    /\ drift_results = <<>>
    /\ health = <<>>
    /\ s3_objects = {}
    /\ trainer = NoTrainer
    /\ fetched = NoFetch

\* nothing loaded, fitted or written yet
FreshEnv ==
    /\ schema_check = NoCheck
    /\ artifacts = {}
    /\ preprocessor_joblib = NoPreprocessor
    /\ model_joblib = FALSE
    /\ loads = NoLoads
    /\ calls = 1
    /\ transformed = NoTransformed

\* data ingestion has written raw_data.csv and saved its schema as raw_data
AfterIngestion ==
    /\ schema_yaml = SchemaFile([n \in {raw_schema_name} |-> FrameSchema(df.cols)])
    /\ FreshEnv
    /\ FreshOps

InitAmount ==
    /\ FERun
    /\ \E rows \in AmountBatches :
          df = [rows |-> rows,
                cols |-> ColsWithout(IF mode = "train" THEN {} ELSE {"isFraud"})]
    /\ AfterIngestion

InitTime ==
    /\ FERun
    /\ \E rows \in TimeBatches :
          df = [rows |-> rows,
                cols |-> ColsWithout(IF mode = "train" THEN {} ELSE {"isFraud"})]
    /\ AfterIngestion

\* at inference the batch may or may not carry a target column
InitEmail ==
    /\ FERun
    /\ \E rows \in EmailBatches, target \in BOOLEAN :
          /\ mode = "train" => target
          /\ ~target => \A p \in 1..Len(rows) : rows[p].isFraud = 0
          /\ df = [rows |-> rows,
                   cols |-> ColsWithout(IF target THEN {} ELSE {"isFraud"})]
    /\ AfterIngestion

InitCols ==
    /\ FERun
    /\ \E absent \in SUBSET OptionalCols :
          df = [rows |-> FixedBatch,
                cols |-> ColsWithout(absent \cup
                            (IF mode = "train" THEN {} ELSE {"isFraud"}))]
    /\ AfterIngestion

\* the columns raw_data.csv may lack when RUN reads it
RunAbsentCols == {"isFraud", "TransactionAmt", "D1", "DeviceType"}

\* RUN on a raw_data.csv that may lack columns, with schema.yaml absent, as data
\* ingestion left it for this file, or holding the full raw schema
InitRun ==
    /\ FERun
    /\ mode = "train"
    /\ \E absent \in SUBSET RunAbsentCols :
          df = [rows |-> FixedBatch, cols |-> ColsWithout(absent)]
    /\ schema_yaml \in {NoSchemaFile, OtherSchemaFile, IngestedSchemaFile,
                        SchemaFile([n \in {raw_schema_name} |-> FrameSchema(df.cols)])}
    /\ FreshEnv
    /\ FreshOps

\* a request to the API, which is starting up, or a direct call of predict or
\* predict_proba on a pipeline whose model may already be loaded
InitProcess ==
    /\ mode = "infer"
    /\ caller \in {"api", "predict", "predict_proba"}
    /\ request \in Requests(caller)
    /\ Fresh
    /\ IF caller = "api"
       THEN pc = "boot" /\ prediction_pipeline = "None" /\ model = "None"
            /\ df = EmptyFrame
       ELSE pc = "call" /\ prediction_pipeline = "PredictionPipeline"
            /\ model \in {"None", "loaded"} /\ df = CallerFrame(request)
    /\ schema_yaml \in {NoSchemaFile, OtherSchemaFile, IngestedSchemaFile}
    /\ schema_check = NoCheck
    /\ artifacts = {"Train_transformed.csv"}
    /\ preprocessor_joblib \in {NoPreprocessor, Fitted(feature_names_in)}
    /\ model_joblib \in BOOLEAN
    /\ model = "loaded" => model_joblib
    /\ loads = [NoLoads EXCEPT !.model = IF model = "loaded" THEN 1 ELSE 0]
    /\ calls = 1
    /\ transformed = NoTransformed

Init == InitProcess /\ FreshOps

\* a process that serves several requests, one row at most in each, after the
\* training pipelines have run
InitCalls ==
    /\ Init
    /\ request.lowered = {} /\ Len(request.rows) <= 1
    /\ schema_yaml = IngestedSchemaFile

SpecAmount == InitAmount /\ [][NextFE]_vars

SpecEmail == InitEmail /\ [][NextFE]_vars

SpecTime == InitTime /\ [][NextFE]_vars

SpecCols == InitCols /\ [][NextFE]_vars

Spec == Init /\ [][Next]_vars

\* the training pipelines run in any order, any number of times
InitSchema ==
    /\ mode = "train"
    /\ pc = "schema"
    /\ caller = "dvc"
    /\ prediction_pipeline = "None"
    /\ model = "None"
    /\ request = NoRequest
    /\ df = EmptyFrame
    /\ Fresh
    /\ schema_yaml \in {NoSchemaFile, InputSchemaFile}
    /\ FreshEnv
    /\ FreshOps

SpecSchema == InitSchema /\ [][NextSchema]_vars

SpecRun == InitRun /\ [][NextRUN]_vars

SpecCalls == InitCalls /\ [][NextCalls]_vars

\* a request to POST /predict or to GET /health
InitHealth == Init /\ request.lowered = {} /\ Len(request.rows) <= 1

SpecHealth == InitHealth /\ [][NextHealth]_vars

SpecLate == InitCalls /\ [][NextLate]_vars

\* the probabilities of n earlier predictions, most of them legitimate
EarlierProbabilities(n) ==
    [i \in 1..n |-> IF i % 7 = 0 THEN fraud_probability(1) ELSE fraud_probability(0)]
        \o <<>>

\* the last window_size elements of a sequence
Recent(probs) ==
    IF Len(probs) <= window_size THEN probs
    ELSE SubSeq(probs, Len(probs) - window_size + 1, Len(probs))

\* how many predictions the detector has seen when the scenario starts
DetectorStarts == {0, 98, 99, 100, 998, 999, 1000, 1001}

\* the drift detector on its own, after some earlier predictions
InitDetector ==
    /\ mode = "infer"
    /\ pc = "detector"
    /\ caller = "drift_detector"
    /\ prediction_pipeline = "None"
    /\ model = "None"
    /\ request = NoRequest
    /\ df = EmptyFrame
    /\ Fresh
    /\ schema_yaml = NoSchemaFile
    /\ FreshEnv
    /\ \E n \in DetectorStarts :
          /\ arrivals = EarlierProbabilities(n)
          /\ prediction_window = Recent(arrivals)
    /\ drift_results = <<>>
    /\ health = <<>>
    /\ s3_objects = {}
    /\ trainer = NoTrainer
    /\ fetched = NoFetch

SpecDetector == InitDetector /\ [][NextDetector]_vars

\* how many predictions the API has served when the scenario starts
DriftStarts == {98, 99, 999, 1000}

\* a request to an API that has served earlier requests, after the training
\* pipelines have run
InitDrift ==
    /\ InitProcess
    /\ request.lowered = {}
    /\ schema_yaml = IngestedSchemaFile
    /\ preprocessor_joblib = Fitted(feature_names_in)
    /\ \E n \in DriftStarts :
          /\ arrivals = EarlierProbabilities(n)
          /\ prediction_window = Recent(arrivals)
    /\ drift_results = <<>>
    /\ health = <<>>
    /\ s3_objects = {}
    /\ trainer = NoTrainer
    /\ fetched = NoFetch

SpecDrift == InitDrift /\ [][Next]_vars

\* what the bucket may hold before the first run: version folders of the model, of
\* another model, of a model whose name goes on after model_name + "_v", and a
\* {model_name}_latest.joblib
StoreCandidates ==
    {S3Object(VersionFolder(model_name, 1), ModelFile, 0),
     S3Object(VersionFolder(model_name, 4), ModelFile, 0),
     S3Object(VersionFolder("LGBMClassifier", 7), ModelFile, 0),
     S3Object(<<Word(model_name), Word("vote"), V(9)>>, ModelFile, 0),
     S3Object(LatestKey.folder, LatestKey.file, 0)}

\* the training pipeline is run, MaxRuns times at most
InitTrain ==
    /\ mode = "train"
    /\ pc = "train"
    /\ caller = "dvc"
    /\ prediction_pipeline = "None"
    /\ model = "None"
    /\ request = NoRequest
    /\ df = EmptyFrame
    /\ Fresh
    /\ schema_yaml = NoSchemaFile
    /\ FreshEnv
    /\ prediction_window = <<>>
    /\ arrivals = <<>>
    /\ drift_results = <<>>
    /\ health = <<>>
    /\ s3_objects \in SUBSET StoreCandidates
    /\ trainer = [NoTrainer EXCEPT !.run = 1]
    /\ fetched = NoFetch

SpecTrain == InitTrain /\ [][NextTrain]_vars

-----------------------------------------------------------------------------
(* Properties of the feature-engineering stages. *)

\* the rows of the frame that precede row p in time on the same card
PriorOnCard(rows, p) ==
    {q \in 1..Len(rows) : /\ rows[q].card_id = rows[p].card_id
                          /\ rows[q].TransactionDT < rows[p].TransactionDT}

\* C6: once create_transaction_amount_features has run, rolling_median_amt of every
\* row is the median of the amounts of the (at most RollWindow) latest rows that
\* precede it in time on the same card_id, and the row's own amount when no row
\* precedes it there; no row of another card_id and no later row enters it.
C6_RollingMedianFromOwnCardHistory ==
    Len(stages) >= 1 =>
        \A p \in 1..Len(df.rows) :
            LET prior == PriorOnCard(df.rows, p)
                latest == {q \in prior :
                              Cardinality({r \in prior : df.rows[r].TransactionDT
                                              > df.rows[q].TransactionDT}) < RollWindow}
            IN  df.rows[p].rolling_median_amt =
                    IF prior = {} THEN <<df.rows[p].TransactionAmt, 1>>
                    ELSE MedianAmt(df.rows, latest)

\* the out-of-fold value of the row at position p (1-based): the label mean of its
\* domain over the rows of the folds that do not hold p, the global mean without one
OutOfFoldRate(rows, p) ==
    LET n == Len(rows)
        k == CHOOSE f \in 1..n_splits : (p - 1) \in ValIdx(n, f)
        m == DomainMean(rows, (0..(n - 1)) \ ValIdx(n, k), rows[p].P_emaildomain)
    IN  IF m = NaN THEN GlobalMean(rows) ELSE m

\* C7: right after create_email_features has run with the target present, every
\* row's P_domain_fraud_rate is the mean label of the rows of its sender domain in
\* the folds that do not contain the row, and the global label mean only when there
\* is no such row, whatever index labels the rows carry.
C7_OutOfFoldRateForAnyIndex ==
    (Len(stages) = 4 /\ pc = "fe" /\ UsesKFold(df)) =>
        \A p \in 1..Len(df.rows) :
            df.rows[p].P_domain_fraud_rate = OutOfFoldRate(df.rows, p)

\* C2: at inference, once create_email_features has run, P_domain_fraud_rate is the
\* fixed fallback constant in every row, also when the batch carries an isFraud
\* column, so that no engineered feature depends on a label.
C2_FallbackRateAtInference ==
    (mode = "infer" /\ Len(stages) >= 4 /\ pc \in {"fe", "fe_done"}) =>
        \A p \in 1..Len(df.rows) : df.rows[p].P_domain_fraud_rate = FallbackRate

\* the engineered columns of a frame, in order
Engineered(cols) == SelectSeq(cols, LAMBDA c : c \notin ColSet(RawCols))

\* C5: whichever optional source columns a batch lacks, no feature-engineering
\* stage raises, and the finished frame has the engineered columns of the batch
\* that lacks none, in the same order.
C5_SameColumnsForAnyOptionalSubset ==
    /\ pc # "fe_failed"
    /\ pc = "fe_done" =>
          Engineered(df.cols) =
              Engineered(RunStages(StagesOf(mode),
                                   [rows |-> FixedBatch,
                                    cols |-> ColsWithout(IF mode = "train" THEN {}
                                                         ELSE {target_col})],
                                   <<>>).df.cols)

\* C8: the training run and the inference path invoke the same stage operations in
\* the same order: at any moment the stages invoked so far are an initial piece of
\* amount, time, card, email, device, address, V-block, aggregation, identity, UID,
\* UID aggregation, enhanced frequency, and a finished run has invoked all twelve.
C8_SameStageOrder ==
    LET order == <<"create_transaction_amount_features", "create_time_features",
                   "create_card_features", "create_email_features",
                   "create_device_features", "create_address_features",
                   "create_v_features", "create_aggregation_features",
                   "create_id_features", "create_uid_features",
                   "create_uid_aggregations", "create_enhanced_frequency_features">>
    IN  /\ Len(stages) <= Len(order)
        /\ stages = SubSeq(order, 1, Len(stages))
        /\ pc = "fe_done" => stages = order

\* an inference run and no other has gone through all its stages
C8_Witness == mode = "infer" /\ pc = "fe_done" /\ Len(stages) = 12

-----------------------------------------------------------------------------
(* Properties of predict, predict_proba and POST /predict. *)

\* C1: a batch that predict or predict_proba accepted, in any row order, gets one
\* result row per input row, with the input TransactionID values in their place, and
\* each result row's prediction is the model's output for the input row that has
\* that TransactionID.
C1_PredictionsAlignedWithTransactionID ==
    (pc = "returned" /\ "TransactionID" \in request.keys) =>
        /\ Len(result) = Len(request.rows)
        /\ \A p \in 1..Len(result) :
              /\ result[p].TransactionID = request.rows[p].TransactionID
              /\ result[p].prediction_isFraud =
                     ModelOutput(FrameRows(request.rows)[p])

\* the columns of the raw-data schema, the target aside, that a frame with the
\* columns keys lacks
Lacking(keys) == (raw_schema \ {target_col}) \ keys

\* C3: when the batch handed to predict or predict_proba lacks a column of the raw
\* schema other than the target, the call fails with SchemaValidationError whose
\* message lists the column, after validation and nothing else has run; and a batch
\* that lacks none never fails in feature engineering because of a column it
\* carries in addition.
C3_MissingColumnIsSchemaValidationError ==
    (caller \in {"predict", "predict_proba"} /\ pc \in {"raised", "returned"}) =>
        /\ Lacking(request.keys) # {} =>
              /\ error.type = "SchemaValidationError"
              /\ Lacking(request.keys) \subseteq error.columns
              /\ steps = <<"validate_input_schema">>
        /\ (Lacking(request.keys) = {} /\ pc = "raised") =>
              steps[Len(steps)] # "apply_feature_engineering"

IsPrefix(s, t) == Len(s) <= Len(t) /\ s = SubSeq(t, 1, Len(s))

Rejected == {i \in 1..Len(request.rows) : request.rows[i].TransactionAmt.type # "number"}

\* C9 as stated: whenever a row of the batch holds a value that cannot be coerced to
\* its field's type, POST /predict answers 422 naming that row's index, the
\* prediction pipeline is not invoked and no predictions are returned.
C9_AnyBadRowIs422 ==
    (caller = "api" /\ Rejected # {}) =>
        /\ steps = <<>>
        /\ pc = "responded" =>
              /\ response.status = 422
              /\ response.row + 1 \in Rejected
              /\ response.predictions = <<>>

\* C9, amended: with a model loaded, whenever a row of the batch holds a value that
\* cannot be coerced to its field's type, POST /predict answers 422 naming the index
\* of the first such row, the prediction pipeline is not invoked and no predictions
\* are returned.
C9_BadRowIs422WhenModelLoaded ==
    (caller = "api" /\ Rejected # {}) =>
        /\ steps = <<>> /\ result = <<>>
        /\ (pc = "responded" /\ prediction_pipeline # "None" /\ model # "None") =>
              /\ response.status = 422
              /\ response.row + 1 \in Rejected
              /\ \A i \in Rejected : response.row + 1 <= i
              /\ response.predictions = <<>>

\* a batch with a good first and a bad second row was answered with a model loaded
C9_Witness ==
    /\ caller = "api" /\ pc = "responded" /\ model = "loaded"
    /\ Len(request.rows) >= 2
    /\ 1 \notin Rejected /\ 2 \in Rejected
    /\ response.status = 422

\* C10: POST /predict answers 503 whenever no pipeline or no model is loaded,
\* whatever the batch, the empty one included; with a model loaded it answers 400 to
\* an empty batch; it answers 500 when an exception that is no HTTPException came out
\* of the processing; and only then: the 422 raised inside the handler stays a 422.
C10_StatusRules ==
    (caller = "api" /\ pc = "responded") =>
        /\ (prediction_pipeline = "None" \/ model = "None") => response.status = 503
        /\ (prediction_pipeline # "None" /\ model # "None" /\ request.rows = <<>>) =>
              response.status = 400
        /\ error # NoError => response.status = 500
        /\ response.status = 500 => error # NoError
        /\ (prediction_pipeline # "None" /\ model # "None" /\ Rejected # {}) =>
              response.status = 422

\* an empty batch was answered while no model was loaded
C10_Witness ==
    /\ caller = "api" /\ pc = "responded"
    /\ model = "None" /\ request.rows = <<>>
    /\ response.status = 503

\* C11: every successful POST /predict reports as total the number of predictions
\* returned, which is the number of transactions submitted, as fraud_count the
\* number of returned predictions with isFraud = 1, and as fraud_rate the
\* percentage 100 * fraud_count / total rounded to two decimals.
C11_ResponseTotals ==
    (caller = "api" /\ pc = "responded" /\ response.status = 200) =>
        /\ response.total = Len(response.predictions)
        /\ response.total = Len(request.rows)
        /\ response.fraud_count =
               Cardinality({p \in 1..Len(response.predictions) :
                               response.predictions[p].isFraud = 1})
        /\ response.total > 0
        /\ LET exact == 1000000 * response.fraud_count
                  held == 100 * response.fraud_rate * response.total
              IN  /\ 2 * (held - exact) <= 100 * response.total
                  /\ 2 * (exact - held) <= 100 * response.total

\* a batch with fraud and non-fraud predictions was answered
C11_Witness ==
    /\ caller = "api" /\ pc = "responded" /\ response.status = 200
    /\ response.fraud_count > 0 /\ response.fraud_count < response.total

-----------------------------------------------------------------------------
(* Properties of the persisted artifacts and of the training pipelines. *)

\* C13: no step of any sequence of prediction requests changes the persisted
\* preprocessor: models/preprocessor.joblib is the same before and after every step
\* of every request.
C13_PreprocessorNeverChangedByInference ==
    [][preprocessor_joblib' = preprocessor_joblib]_vars

\* a later request of the process has been predicted with the saved preprocessor
C13_Witness ==
    /\ calls > 1
    /\ pc = "returned"
    /\ preprocessor_joblib = Fitted(feature_names_in)
    /\ loads.preprocessor > 0

\* C14 as stated: across the requests of one process the model is loaded at most
\* once and the fitted preprocessor is loaded at most once, and the model is fetched
\* only when the local copy is missing.
C14_LoadedAtMostOnce ==
    /\ loads.model <= 1
    /\ loads.preprocessor <= 1
    /\ loads.fetch > 0 => (model_joblib \/ model = "None")

\* C15 as stated: a transformation run whose engineered frame has no target column
\* does not complete, and writes neither Train_transformed.csv nor a
\* preprocessed_train entry.
C15_NoTargetFailsAtFitting ==
    (caller = "RUN" /\ ~HasCol(df, target_col)) =>
        /\ pc # "run_done"
        /\ "Train_transformed.csv" \notin artifacts
        /\ "preprocessed_train" \notin DOMAIN schema_yaml.content

\* C16: when a feature-engineering stage of RUN raises, the run ends there: the step
\* that raises leads to the failed run and leaves the data files, the saved
\* preprocessor, the transformed frames and schema.yaml as they were, no step
\* follows it, and nothing of these was written before it.
C16_StageFailureAbortsRun ==
    [][/\ (caller = "RUN" /\ pc = "fe"
              /\ StageRaises(StagesOf(mode)[Len(stages) + 1], df)) =>
            /\ pc' = "fe_failed"
            /\ stages' = Append(stages, StagesOf(mode)[Len(stages) + 1])
       /\ (caller = "RUN" /\ pc \in {"start", "fe"}) =>
            /\ UNCHANGED <<artifacts, preprocessor_joblib, transformed, schema_yaml>>
            /\ artifacts = {} /\ transformed = NoTransformed
            /\ ~preprocessor_joblib.exists
       /\ pc # "fe_failed"]_vars

\* RUN ended in a stage that is not its last
C16_Witness ==
    /\ caller = "RUN" /\ pc = "fe_failed"
    /\ stages # <<>> /\ Len(stages) < Len(RUN_stages)
    /\ artifacts = {}

\* C17 as stated: a comparison that finds a mismatch stops the pipeline under strict,
\* and under non-strict returns its result and lets the pipeline go on.
C17_StrictMismatchAborts ==
    (schema_check.op = "compare" /\ ~schema_check.result.match) =>
        IF schema_check.strict THEN schema_check.outcome = "aborted"
        ELSE schema_check.outcome = "continued" /\ schema_check.result.raised = "None"

IsInteger(d) == NormalizedDtype(d) \in int_types

IsFloat(d) == NormalizedDtype(d) \in float_types

IsTextual(d) == NormalizedDtype(d) \in object_types

IsNumeric(d) == IsInteger(d) \/ IsFloat(d)

\* C18 as stated: a column is reported as a dtype mismatch exactly when one of its
\* two dtypes is numeric and the other textual; two integer widths, two float
\* widths, two textual dtypes and an integer against a float are not reported.
C18_OnlyNumericAgainstTextMismatches ==
    (schema_check.op = "compare" /\ schema_check.result.raised \notin {"FileNotFoundError"}
        /\ schema_check.schema_name \in DOMAIN schema_yaml.content) =>
        LET expected == schema_yaml.content[schema_check.schema_name]
            actual == schema_check.actual
        IN  \A c \in DOMAIN expected \cap DOMAIN actual :
               c \in schema_check.result.dtype_mismatches <=>
                   \/ IsNumeric(expected[c]) /\ IsTextual(actual[c])
                   \/ IsTextual(expected[c]) /\ IsNumeric(actual[c])

\* C19 as stated: validation against a schema file that does not exist, or that
\* lacks the named entry, reports success; here for a prediction request.
C19_MissingSchemaIsFirstRun ==
    (steps # <<>> /\ pc # "validate"
        /\ (~schema_yaml.exists \/ raw_schema_name \notin DOMAIN schema_yaml.content)) =>
        ~(pc = "raised" /\ steps = <<"validate_input_schema">>)

\* C20: a save sets the entry of its name to the schema of the frame saved, keeps
\* every other entry as it was and adds no other entry; and no step of any pipeline
\* removes an entry or the file.
C20_SaveSetsOneEntryKeepsTheOthers ==
    [][/\ schema_yaml.exists => schema_yaml'.exists
       /\ DOMAIN schema_yaml.content \subseteq DOMAIN schema_yaml'.content
       /\ (schema_check'.op = "save") =>
            /\ schema_yaml'.exists
            /\ DOMAIN schema_yaml'.content =
                   DOMAIN schema_yaml.content \cup {schema_check'.schema_name}
            /\ schema_yaml'.content[schema_check'.schema_name] = schema_check'.actual
            /\ \A n \in DOMAIN schema_yaml.content \ {schema_check'.schema_name} :
                  schema_yaml'.content[n] = schema_yaml.content[n]]_vars

\* a save has replaced an entry in a file that holds other entries
C20_Witness ==
    /\ schema_check.op = "save"
    /\ Cardinality(DOMAIN schema_yaml.content) >= 3
    /\ schema_yaml.content[schema_check.schema_name] = schema_check.actual
    /\ schema_check.actual # [c \in {"TransactionAmt"} |-> "float64"]

\* the versions N of the folders named {model_name}_v{N} in the bucket
OwnVersions ==
    {f[2].num : f \in {g \in CommonPrefixes(s3_objects) :
                          /\ Len(g) = 2
                          /\ g[1] = Word(model_name)
                          /\ g[2].word = "v" /\ g[2].num >= 0}}

\* the versions N of the folders whose name begins with {model_name}_v and ends in
\* _v{N}
PrefixedVersions ==
    {f[Len(f)].num : f \in {g \in CommonPrefixes(s3_objects) :
                               /\ Len(g) >= 2
                               /\ g[1] = Word(model_name)
                               /\ g[2].word \in VWords
                               /\ g[Len(g)].word = "v" /\ g[Len(g)].num >= 0}}

C22_NewVersionAboveStore ==
    pc = "upload" =>
        /\ \A n \in OwnVersions : trainer.version > n
        /\ VersionFolder(model_name, trainer.version) \notin CommonPrefixes(s3_objects)

\* C23: a failing mlflow call in ModelTraining.train does not abort training: the
\* model is fitted, evaluated and returned.
C23_TrackingFailureDoesNotAbort ==
    trainer.failed_call # "none" =>
        /\ pc # "train_failed"
        /\ trainer.fitted
        /\ trainer.model = "fitted"

\* C28: once a run has saved and uploaded version N, an inference process with
\* model_version "latest" and no local copy fetches the artifact of that run.
C28_LatestResolvesToTrainedVersion ==
    (pc = "trained" /\ trainer.uploaded /\ fetched.done) =>
        /\ fetched.ok
        /\ fetched.run = trainer.run

\* C24: with fewer than 100 probabilities in the window, check_drift reports a
\* prediction drift of 0.0 and a label drift of 0.0, and neither alert.
C24_NoDriftBelowHundred ==
    (pc = "detector" /\ drift_results # <<>> /\ Len(prediction_window) < 100) =>
        /\ drift_results[1].prediction_drift = <<0, 1>>
        /\ drift_results[1].label_drift = <<0, 1>>
        /\ ~drift_results[1].prediction_drift_alert
        /\ ~drift_results[1].label_drift_alert

\* check_drift on 99 probabilities, the last of them just added
C24_Witness ==
    /\ pc = "detector"
    /\ calls > 1
    /\ Len(prediction_window) = 99
    /\ drift_results # <<>>
    /\ drift_results[1].samples_in_window = 99

\* C25: the window holds at most 1000 probabilities, and they are the
\* min(n, 1000) latest of the n added so far, in the order they came.
C25_WindowIsMostRecent ==
    pc = "detector" =>
        LET n == Len(arrivals)
            k == IF n < 1000 THEN n ELSE 1000
        IN  /\ Len(prediction_window) = k
            /\ \A i \in 1..k : prediction_window[i] = arrivals[n - k + i]

\* more than 1000 probabilities have come, the last two of them different
C25_Witness ==
    /\ pc = "detector"
    /\ calls > 1
    /\ Len(arrivals) > 1000
    /\ Len(prediction_window) = 1000
    /\ prediction_window[1000] # prediction_window[999]
    /\ prediction_window[1] = arrivals[Len(arrivals) - 999]

\* C29: a successful request runs check_drift exactly when the probabilities it adds
\* take the number added so far to, or past, another multiple of 100.
C29_DriftCheckedEveryHundred ==
    (caller = "api" /\ pc = "responded" /\ response.status = 200) =>
        ((drift_results # <<>>)
            <=> (Len(arrivals) \div 100 > (Len(arrivals) - response.total) \div 100))

\* C26: GET /health answers 200 with status "healthy" whatever the state of the
\* model, and model_loaded is true exactly when a pipeline exists and its model is
\* not None.
C26_HealthTellsModelState ==
    health # <<>> =>
        /\ health[1].status_code = 200
        /\ health[1].status = "healthy"
        /\ health[1].model_loaded
              <=> (prediction_pipeline # "None" /\ model # "None")

\* the API answers /health with a pipeline whose model failed to load
C26_Witness ==
    /\ health # <<>>
    /\ prediction_pipeline = "PredictionPipeline"
    /\ model = "None"
    /\ ~health[1].model_loaded
    /\ health[1].status = "healthy"

\* C27: once create_time_features has run, Transaction_cnt_1hr of every row is the
\* number of rows of the same card_id whose TransactionDT lies in the 3600 seconds
\* up to and including the row's own.
C27_CountOfLastHour ==
    (Len(stages) >= 2 /\ stages[2] = "create_time_features"
        /\ (Len(stages) > 2 \/ pc # "fe_failed")) =>
        \A p \in 1..Len(df.rows) :
            df.rows[p].Transaction_cnt_1hr =
                <<Cardinality({q \in 1..Len(df.rows) :
                      /\ df.rows[q].card_id = df.rows[p].card_id
                      /\ df.rows[q].TransactionDT <= df.rows[p].TransactionDT
                      /\ df.rows[q].TransactionDT > df.rows[p].TransactionDT - 3600}), 1>>

\* C30: after a failed load at startup, a POST /predict that comes once the model
\* file can be loaded is not answered 503.
C30_LateModelIsServed ==
    [][(/\ caller = "api" /\ pc = "idle" /\ calls > 1
        /\ prediction_pipeline # "None" /\ model_joblib
        /\ pc' = "responded")
            => response'.status # 503]_vars

====
